---------------------------- MODULE Spec2Model ----------------------------
(***************************************************************************)
(* Content-based movie recommendation system: the offline training path    *)
(* (FeatureEngineer, SimilarityComputer) as state machines.                *)
(*                                                                         *)
(* Floating-point values are held as exact rationals [num, den] in lowest  *)
(* terms, plus the two non-values numpy produces, NaN and Inf.  Arrays are *)
(* functions over 0..n-1, as numpy indexes them.                           *)
(***************************************************************************)
EXTENDS Integers, Sequences, FiniteSets, TLC

(***************************************************************************)
(* Bounds of the model.                                                    *)
(***************************************************************************)
MaxMovies == 3

(***************************************************************************)
(* Configuration: the genre vocabulary (a prefix of the configured list).  *)
(***************************************************************************)
GenreColumns == <<"Action", "Comedy", "Drama">>

SUPPORTED_METHODS == <<"cosine", "jaccard">>

(***************************************************************************)
(* Exact arithmetic standing for IEEE doubles.                             *)
(***************************************************************************)
\* a double: kind "num" is the rational num/den, "nan" and "inf" the non-values
NaN == [kind |-> "nan", num |-> 0, den |-> 1]

Inf == [kind |-> "inf", num |-> 0, den |-> 1]

Abs(x) == IF x < 0 THEN -x ELSE x

RECURSIVE GCD(_, _)
GCD(a, b) == IF b = 0 THEN a ELSE GCD(b, a % b)

\* n/d in lowest terms with a positive denominator (d # 0)
Frac(n, d) ==
    LET g == GCD(Abs(n), Abs(d))
        s == IF d < 0 THEN -1 ELSE 1
    IN  [kind |-> "num", num |-> (s * n) \div g, den |-> (s * d) \div g]

Zero == Frac(0, 1)

One == Frac(1, 1)

IsNumber(x) == x.kind = "num"

\* numpy true division of two non-negative counts
Divide(a, b) ==
    IF b = 0 THEN (IF a = 0 THEN NaN ELSE Inf) ELSE Frac(a, b)

\* comparisons with a NaN operand are false, as in IEEE 754
FLeq(x, y) ==
    /\ IsNumber(x)
    /\ IsNumber(y)
    /\ x.num * y.den <= y.num * x.den

FMul(x, y) ==
    IF IsNumber(x) /\ IsNumber(y)
    THEN Frac(x.num * y.num, x.den * y.den)
    ELSE NaN

FSub(x, y) ==
    IF IsNumber(x) /\ IsNumber(y)
    THEN Frac(x.num * y.den - y.num * x.den, x.den * y.den)
    ELSE NaN

FAdd(x, y) ==
    IF IsNumber(x) /\ IsNumber(y)
    THEN Frac(x.num * y.den + y.num * x.den, x.den * y.den)
    ELSE NaN

\* x / y for y # 0
FDiv(x, y) ==
    IF IsNumber(x) /\ IsNumber(y)
    THEN Frac(x.num * y.den, x.den * y.num)
    ELSE NaN

RECURSIVE SumTo(_, _)
\* np.sum over a vector v indexed 0..k-1
SumTo(v, k) == IF k = 0 THEN 0 ELSE v[k - 1] + SumTo(v, k - 1)

NpSum(v) == SumTo(v, Cardinality(DOMAIN v))

Truthy(x) == x # 0

LogicalAnd(a, b) ==
    [k \in DOMAIN a |-> IF Truthy(a[k]) /\ Truthy(b[k]) THEN 1 ELSE 0]

LogicalOr(a, b) ==
    [k \in DOMAIN a |-> IF Truthy(a[k]) \/ Truthy(b[k]) THEN 1 ELSE 0]

(***************************************************************************)
(* SimilarityComputer.compute_jaccard_similarity                           *)
(***************************************************************************)
NumGenres == Len(GenreColumns)

GenreRows == [0 .. NumGenres - 1 -> {0, 1}]

\* binary genre matrices of shape (n, NumGenres), n <= MaxMovies
GenreMatrices == UNION {[0 .. n - 1 -> GenreRows] : n \in 0 .. MaxMovies}

Shape0(m) == Cardinality(DOMAIN m)

\* np.zeros((n, n))
NpZeros(n) == [i \in 0 .. n - 1 |-> [j \in 0 .. n - 1 |-> Zero]]

\* the loop body without the union > 0 test
JaccardPairUnguarded(row_i, row_j) ==
    LET intersection == NpSum(LogicalAnd(row_i, row_j))
        union == NpSum(LogicalOr(row_i, row_j))
    IN  Divide(intersection, union)

\* the loop body dividing by the summed set sizes instead of the union
JaccardPairSumSizes(row_i, row_j) ==
    LET intersection == NpSum(LogicalAnd(row_i, row_j))
        sizes == NpSum(row_i) + NpSum(row_j)
    IN  IF sizes > 0 THEN Divide(intersection, sizes) ELSE Zero

\* the loop body giving an empty pair the value 1.0
JaccardPairEmptyOne(row_i, row_j) ==
    LET intersection == NpSum(LogicalAnd(row_i, row_j))
        union == NpSum(LogicalOr(row_i, row_j))
    IN  IF union > 0 THEN Divide(intersection, union) ELSE One

\* the loop body with numerator and denominator exchanged
JaccardPairInverted(row_i, row_j) ==
    LET intersection == NpSum(LogicalAnd(row_i, row_j))
        union == NpSum(LogicalOr(row_i, row_j))
    IN  IF intersection > 0 THEN Divide(union, intersection) ELSE Zero

\* lines 77-84: similarity of one pair of rows
JaccardPair(row_i, row_j) ==
    LET intersection == NpSum(LogicalAnd(row_i, row_j))
        union == NpSum(LogicalOr(row_i, row_j))
    IN  IF union > 0 THEN Divide(intersection, union) ELSE Zero

\* the two stores without the mirrored one
JaccardStoreUpperOnly(acc, i, j, similarity) ==
    [matrix |-> [acc.matrix EXCEPT ![i][j] = similarity],
     written |-> acc.written \cup {<<i, j>>}]

\* lines 87-88: similarity_matrix[i, j] = similarity_matrix[j, i] = similarity
\* (written: the cells stored so far, kept beside the matrix)
JaccardStore(acc, i, j, similarity) ==
    [matrix |-> [acc.matrix EXCEPT ![i][j] = similarity, ![j][i] = similarity],
     written |-> acc.written \cup {<<i, j>>, <<j, i>>}]

RECURSIVE JaccardLoop(_, _, _, _)
\* lines 74-88: for i in range(n): for j in range(i, n): ...
JaccardLoop(gm, i, j, acc) ==
    LET n == Shape0(gm)
    IN  IF i >= n THEN acc
        ELSE IF j >= n THEN JaccardLoop(gm, i + 1, i + 1, acc)
        ELSE JaccardLoop(gm, i, j + 1,
                         JaccardStore(acc, i, j, JaccardPair(gm[i], gm[j])))

\* lines 70-97, with the set of cells the loop stored
JaccardRun(gm) ==
    JaccardLoop(gm, 0, 0, [matrix |-> NpZeros(Shape0(gm)), written |-> {}])

compute_jaccard_similarity(gm) == JaccardRun(gm).matrix

(***************************************************************************)
(* pandas tables: columns is the set of column names, rows maps 0..n-1 to  *)
(* a row, a function from the column names to the cell values.             *)
(***************************************************************************)
GenreSet == {GenreColumns[k] : k \in 1 .. Len(GenreColumns)}

EmptyTable == [columns |-> {}, rows |-> <<>>]

NumRows(t) == Cardinality(DOMAIN t.rows)

\* df[name] for each row
Column(t, name) == [i \in DOMAIN t.rows |-> t.rows[i][name]]

\* df[name] = values
WithColumn(t, name, values) ==
    [columns |-> t.columns \cup {name},
     rows |-> [i \in DOMAIN t.rows |->
                 [c \in t.columns \cup {name} |->
                     IF c = name THEN values[i] ELSE t.rows[i][c]]]]

\* a table without one of its columns
DropColumn(t, name) ==
    [columns |-> t.columns \ {name},
     rows |-> [i \in DOMAIN t.rows |->
                 [c \in t.columns \ {name} |-> t.rows[i][c]]]]

SeqToSet(q) == {q[k] : k \in 1 .. Len(q)}

\* every name of the list cols is a column of t
HasColumnsOf(t, cols) == SeqToSet(cols) \subseteq t.columns

\* the float64 columns; the genre flags are int64 columns
FloatColumns == {"year", "year_normalized"}

\* df[cols].values as float64, cols a list of present columns
Values(t, cols) ==
    [i \in DOMAIN t.rows |->
        [k \in 0 .. Len(cols) - 1 |->
            LET v == t.rows[i][cols[k + 1]]
            IN  IF cols[k + 1] \in FloatColumns THEN v ELSE Frac(v, 1)]]

(***************************************************************************)
(* Series.median and Series.fillna                                         *)
(***************************************************************************)
RECURSIVE InsertSorted(_, _)
InsertSorted(q, x) ==
    IF q = <<>> THEN <<x>>
    ELSE IF FLeq(x, Head(q)) THEN <<x>> \o q
    ELSE <<Head(q)>> \o InsertSorted(Tail(q), x)

RECURSIVE SortedNumbers(_, _)
\* the non-NaN values of v[0..k-1] in ascending order
SortedNumbers(v, k) ==
    IF k = 0 THEN <<>>
    ELSE IF IsNumber(v[k - 1])
         THEN InsertSorted(SortedNumbers(v, k - 1), v[k - 1])
         ELSE SortedNumbers(v, k - 1)

\* Series.median(): NaN values skipped, NaN when no value is left
Median(v) ==
    LET q == SortedNumbers(v, Cardinality(DOMAIN v))
        n == Len(q)
    IN  IF n = 0 THEN NaN
        ELSE IF n % 2 = 1 THEN q[(n + 1) \div 2]
        ELSE FDiv(FAdd(q[n \div 2], q[n \div 2 + 1]), Frac(2, 1))

IsNa(x) == ~IsNumber(x)

NaCount(v) == Cardinality({i \in DOMAIN v : IsNa(v[i])})

FillNa(v, value) == [i \in DOMAIN v |-> IF IsNa(v[i]) THEN value ELSE v[i]]

(***************************************************************************)
(* sklearn.preprocessing.MinMaxScaler (feature_range (0, 1), clip off)     *)
(***************************************************************************)
UnfittedScaler == [fitted |-> FALSE, data_min |-> NaN, data_max |-> NaN]

\* np.nanmin / np.nanmax of a non-empty column
NanMin(v) ==
    LET q == SortedNumbers(v, Cardinality(DOMAIN v))
    IN  IF q = <<>> THEN NaN ELSE q[1]

NanMax(v) ==
    LET q == SortedNumbers(v, Cardinality(DOMAIN v))
    IN  IF q = <<>> THEN NaN ELSE q[Len(q)]

\* scale_ = 1 / data_range, a zero range taken as 1
ScalerScale(sc) ==
    LET data_range == FSub(sc.data_max, sc.data_min)
    IN  IF data_range = Zero THEN One ELSE FDiv(One, data_range)

\* min_ = 0 - data_min * scale_
ScalerMin(sc) == FSub(Zero, FMul(sc.data_min, ScalerScale(sc)))

\* MinMaxScaler.transform on a fitted scaler: X * scale_ + min_
ScalerApply(sc, v) ==
    [i \in DOMAIN v |-> FAdd(FMul(v[i], ScalerScale(sc)), ScalerMin(sc))]

\* MinMaxScaler.fit: the state is reset first; no sample is a ValueError
ScalerFit(v) ==
    IF Cardinality(DOMAIN v) = 0
    THEN [raised |-> "ValueError", scaler |-> UnfittedScaler]
    ELSE [raised |-> "none",
          scaler |-> [fitted |-> TRUE,
                      data_min |-> NanMin(v),
                      data_max |-> NanMax(v)]]

(***************************************************************************)
(* FeatureEngineer                                                         *)
(***************************************************************************)
\* FeaturesConfig.year_weight = 0.1
YearWeight == Frac(1, 10)

\* FeatureEngineer.__init__
NewFeatureEngineer(year_weight, genre_columns) ==
    [year_weight |-> year_weight,
     genre_columns |-> genre_columns,
     scaler |-> UnfittedScaler,
     is_fitted |-> FALSE]

Raise(self, exc) ==
    [self |-> self, raised |-> exc, features |-> EmptyTable, matrix |-> <<>>]

\* genre labels first, "year_normalized" last
FeatureColumns(self) == self.genre_columns \o <<"year_normalized">>

\* "year_normalized" first
FeatureNamesYearFirst(self) == <<"year_normalized">> \o self.genre_columns

get_feature_names(self) == self.genre_columns \o <<"year_normalized">>

Scaled(v, year_weight) == [i \in DOMAIN v |-> FMul(v[i], year_weight)]

(***************************************************************************)
(* SimilarityComputer.compute_cosine_similarity                            *)
(* (sklearn.metrics.pairwise.cosine_similarity: rows scaled to unit L2     *)
(* norm, a zero row left as it is, then the pairwise dot products).  An    *)
(* entry is held as sign * sqrt(num/den): kind "sqrt" or "negsqrt".        *)
(***************************************************************************)
RECURSIVE DotTo(_, _, _)
DotTo(a, b, k) ==
    IF k = 0 THEN Zero
    ELSE FAdd(FMul(a[k - 1], b[k - 1]), DotTo(a, b, k - 1))

Dot(a, b) == DotTo(a, b, Cardinality(DOMAIN a))

SignedRoot(square, negative) ==
    [kind |-> IF negative /\ square.num # 0 THEN "negsqrt" ELSE "sqrt",
     num |-> square.num,
     den |-> square.den]

CosinePair(a, b) ==
    LET dot == Dot(a, b)
        norm_a == Dot(a, a)
        norm_b == Dot(b, b)
    IN  IF norm_a = Zero \/ norm_b = Zero
        THEN SignedRoot(Zero, FALSE)
        ELSE SignedRoot(FDiv(FMul(dot, dot), FMul(norm_a, norm_b)),
                        dot.num < 0)

AllFinite(m) == \A i \in DOMAIN m : \A k \in DOMAIN m[i] : IsNumber(m[i][k])

\* ValueError from sklearn's input check: no sample, or NaN / infinity
compute_cosine_similarity(feature_matrix) ==
    IF Shape0(feature_matrix) = 0 \/ ~AllFinite(feature_matrix)
    THEN [raised |-> "ValueError", matrix |-> <<>>]
    ELSE [raised |-> "none",
          matrix |-> [i \in DOMAIN feature_matrix |->
                        [j \in DOMAIN feature_matrix |->
                            CosinePair(feature_matrix[i], feature_matrix[j])]]]

(***************************************************************************)
(* SimilarityComputer.compute_all_similarities                             *)
(***************************************************************************)
\* SimilarityComputer.__init__ (None fields held as empty values)
NewSimilarityComputer ==
    [similarity_matrices |-> <<>>,
     feature_matrix |-> <<>>,
     genre_columns |-> <<>>]

\* dict[key] = value
DictPut(d, key, value) ==
    [k \in DOMAIN d \cup {key} |-> IF k = key THEN value ELSE d[k]]

\* movies_features[genre_columns].values (int64 flags)
GenreValues(t, cols) ==
    [i \in DOMAIN t.rows |->
        [k \in 0 .. Len(cols) - 1 |-> t.rows[i][cols[k + 1]]]]

\* the else branch raising instead of warning
OnUnknownMethodRaise(acc, method) == [acc EXCEPT !.raised = "ValueError"]

\* line 145: logger.warning, nothing else
OnUnknownMethod(acc, method) == [acc EXCEPT !.warnings = @ \o <<method>>]

\* lines 134-145: one pass of the loop body
ComputeMethod(acc, feature_matrix, genre_columns, movies_features, method) ==
    IF method = "cosine"
    THEN LET r == compute_cosine_similarity(feature_matrix)
         IN  IF r.raised # "none" THEN [acc EXCEPT !.raised = r.raised]
             ELSE [acc EXCEPT !.self.similarity_matrices =
                                  DictPut(@, "cosine", r.matrix)]
    ELSE IF method = "jaccard"
    THEN IF ~HasColumnsOf(movies_features, genre_columns)
         THEN [acc EXCEPT !.raised = "KeyError"]
         ELSE [acc EXCEPT !.self.similarity_matrices =
                 DictPut(@, "jaccard",
                         compute_jaccard_similarity(
                             GenreValues(movies_features, genre_columns)))]
    ELSE OnUnknownMethod(acc, method)

RECURSIVE ComputeMethods(_, _, _, _, _)
\* line 133: for method in methods, left when a pass raises
ComputeMethods(acc, feature_matrix, genre_columns, movies_features, methods) ==
    IF methods = <<>> \/ acc.raised # "none" THEN acc
    ELSE ComputeMethods(
             ComputeMethod(acc, feature_matrix, genre_columns,
                           movies_features, Head(methods)),
             feature_matrix, genre_columns, movies_features, Tail(methods))

\* methods: [given, list]; given = FALSE stands for methods=None
compute_all_similarities(self, feature_matrix, genre_columns, movies_features, methods) ==
    LET list == IF methods.given THEN methods.list ELSE SUPPORTED_METHODS
        entered == [self EXCEPT !.feature_matrix = feature_matrix,
                                !.genre_columns = genre_columns]
        acc == ComputeMethods([self |-> entered, raised |-> "none",
                               warnings |-> <<>>],
                              feature_matrix, genre_columns,
                              movies_features, list)
    IN  [self |-> acc.self,
         raised |-> acc.raised,
         warnings |-> acc.warnings,
         returned |-> IF acc.raised = "none"
                      THEN acc.self.similarity_matrices ELSE <<>>]

(***************************************************************************)
(* MetricsTracker and RequestLoggingMiddleware.  MetricsData is a record;  *)
(* a defaultdict(int) is a function on the keys touched so far.  The key   *)
(* f"{method} {path}" of requests_by_endpoint is the pair <<method, path>>.*)
(* Durations are whole milliseconds; start_time and uptime_seconds, which  *)
(* only read the clock, are left out.                                      *)
(***************************************************************************)
\* MetricsData(): lines 13-19
NewMetricsData ==
    [total_requests |-> 0,
     successful_requests |-> 0,
     failed_requests |-> 0,
     total_duration_ms |-> 0,
     errors_by_type |-> <<>>,
     requests_by_endpoint |-> <<>>,
     status_codes |-> <<>>]

\* defaultdict(int)[key]
DictGet(d, key) == IF key \in DOMAIN d THEN d[key] ELSE 0

\* defaultdict(int)[key] += 1
DictInc(d, key) == DictPut(d, key, DictGet(d, key) + 1)

\* line 38 taking only 2xx for a success
IsSuccessOnly2xx(status_code) == 200 <= status_code /\ status_code < 300

\* line 38: 200 <= status_code < 400
IsSuccess(status_code) == 200 <= status_code /\ status_code < 400

\* record_request, lines 33-41, run under the lock
record_request(data, method, path, status_code, duration_ms) ==
    [data EXCEPT
        !.total_requests = @ + 1,
        !.total_duration_ms = @ + duration_ms,
        !.requests_by_endpoint = DictInc(@, <<method, path>>),
        !.status_codes = DictInc(@, status_code),
        !.successful_requests = IF IsSuccess(status_code) THEN @ + 1 ELSE @,
        !.failed_requests = IF IsSuccess(status_code) THEN @ ELSE @ + 1]

\* record_error, lines 46-47, run under the lock
record_error(data, method, path, error_type) ==
    [data EXCEPT !.failed_requests = @ + 1,
                 !.errors_by_type = DictInc(@, error_type)]

\* round(a / b * 100, 2) in hundredths, for 0 <= a and 0 < b
RatioX100(a, b) == (2 * a * 100 + b) \div (2 * b)

\* get_metrics, lines 53-73; success_rate and avg_latency_ms in hundredths
get_metrics(data) ==
    [total_requests |-> data.total_requests,
     successful_requests |-> data.successful_requests,
     failed_requests |-> data.failed_requests,
     success_rate_x100 |->
        IF data.total_requests > 0
        THEN RatioX100(data.successful_requests * 100, data.total_requests)
        ELSE 0,
     avg_latency_ms_x100 |->
        IF data.total_requests > 0
        THEN RatioX100(data.total_duration_ms, data.total_requests)
        ELSE 0,
     errors_by_type |-> data.errors_by_type,
     requests_by_endpoint |-> data.requests_by_endpoint,
     status_codes |-> data.status_codes]

\* reset, line 78
reset(data) == NewMetricsData

\* what awaiting call_next(request) can do: hand back the response of the
\* application, or raise
Returns(status_code) ==
    [kind |-> "response", status_code |-> status_code, error_type |-> "none"]

Raises(error_type) ==
    [kind |-> "raise", status_code |-> 0, error_type |-> error_type]

\* the exception classes derived from Exception, which line 73 catches; a
\* cancelled task raises asyncio.CancelledError, a BaseException
ExceptionTypes == {"RuntimeError"}

BaseExceptionTypes == ExceptionTypes \cup {"CancelledError"}

NoHeaders == {}

\* dispatch whose except branch answers instead of raising again
dispatch_answering(data, request, outcome) ==
    IF outcome.kind = "response"
    THEN [data |-> record_request(data, request.method, request.path,
                                  outcome.status_code, request.duration_ms),
          calls |-> <<"record_request">>,
          response |-> [status_code |-> outcome.status_code,
                        headers |-> {"X-Correlation-ID"}],
          raised |-> "none"]
    ELSE [data |-> record_error(data, request.method, request.path,
                                outcome.error_type),
          calls |-> <<"record_error">>,
          response |-> [status_code |-> 500, headers |-> NoHeaders],
          raised |-> "none"]

\* dispatch, lines 42-99: calls is the list of tracker calls made, response
\* what dispatch returns (status 0: nothing returned), raised what it raises
dispatch(data, request, outcome) ==
    IF outcome.kind = "response"
    THEN [data |-> record_request(data, request.method, request.path,
                                  outcome.status_code, request.duration_ms),
          calls |-> <<"record_request">>,
          response |-> [status_code |-> outcome.status_code,
                        headers |-> {"X-Correlation-ID"}],
          raised |-> "none"]
    ELSE IF outcome.error_type \in ExceptionTypes
    THEN [data |-> record_error(data, request.method, request.path,
                                outcome.error_type),
          calls |-> <<"record_error">>,
          response |-> [status_code |-> 0, headers |-> NoHeaders],
          raised |-> outcome.error_type]
    ELSE [data |-> data,
          calls |-> <<>>,
          response |-> [status_code |-> 0, headers |-> NoHeaders],
          raised |-> outcome.error_type]

\* general_exception_handler, main.py lines 528-539: the status the client
\* gets for a request whose exception left the middleware
general_exception_handler(error_type) == 500

(***************************************************************************)
(* S3Storage.download_model_version and download_models_from_s3.  An       *)
(* object key f"{prefix}{version}/..." is the list of its path parts after *)
(* the prefix, the version first; the local directory is the set of file   *)
(* names in it.                                                            *)
(***************************************************************************)
\* lines 318-322
RequiredModelFiles ==
    {"cosine_similarity_matrix.pkl", "movies_features.pkl", "metadata.json"}

\* list_objects_v2(Prefix=f"{self.prefix}{version}/"): the keys under it
list_objects_v2(objects, version) == {k \in objects : k[1] = version}

\* Path(s3_key).name
PathName(s3_key) == s3_key[Len(s3_key)]

\* lines 252-257 without the check
MissingFilesUnchecked(required_files, downloaded_files) == {}

\* line 253: set(required_files) - set(downloaded_files)
MissingFiles(required_files, downloaded_files) ==
    required_files \ downloaded_files

Downloaded(local, raised) == [local |-> local, raised |-> raised]

\* download_model_version, lines 225-264; reachable: the requests to S3 go
\* through (a ClientError is logged and raised again otherwise)
download_model_version(objects, local, version, required_files, reachable) ==
    IF ~reachable THEN Downloaded(local, "ClientError")
    ELSE IF list_objects_v2(objects, version) = {}
    THEN Downloaded(local, "FileNotFoundError")
    ELSE LET downloaded_files ==
                 {PathName(k) : k \in list_objects_v2(objects, version)}
         IN  IF required_files # {}
                /\ MissingFiles(required_files, downloaded_files) # {}
             THEN Downloaded(local \cup downloaded_files, "FileNotFoundError")
             ELSE Downloaded(local \cup downloaded_files, "none")

\* download_models_from_s3, lines 312-328; a bucket name is configured
download_models_from_s3(boto3, objects, local, version, reachable) ==
    IF ~boto3 THEN Downloaded(local, "none")
    ELSE download_model_version(objects, local, version, RequiredModelFiles,
                                reachable)

(***************************************************************************)
(* State                                                                   *)
(***************************************************************************)
VARIABLES
    genre_matrix,       \* argument of compute_jaccard_similarity
    similarity_matrix,  \* its return value (empty before the call returns)
    written,            \* cells of similarity_matrix the loop stored
    jaccard_pc,         \* "call" before, "done" after
    pandas_cow,         \* the installed pandas runs copy-on-write (pandas >= 3)
    fe,                 \* the FeatureEngineer instance
    fe_op,              \* the last method called on it
    fe_movies,          \* the argument of that call
    fe_raised,          \* "none" or the exception the call raised
    fe_features,        \* the returned movies_features table
    fe_matrix,          \* the returned feature_matrix
    fe_names,           \* the last value get_feature_names returned
    fe_fit_completed,   \* some fit_transform call has returned normally
    sim,                \* the SimilarityComputer instance
    sim_features,       \* movies_features handed to compute_all_similarities
    sim_matrix,         \* feature_matrix handed to compute_all_similarities
    sim_op,             \* "init" or "compute_all" once a call was made
    sim_methods,        \* the methods argument of the last call
    sim_raised,         \* "none" or the exception the last call raised
    sim_warnings,       \* the names the last call warned about, in order
    sim_returned,       \* the dictionary the last call returned
    settings,           \* the configuration the TrainingPipeline was built with
    pipeline,           \* the TrainingPipeline instance
    pipeline_pc,        \* how far run() has come
    model_dir,          \* the versioned artifact directory on disk
    saved_files,        \* the files the last save_artifacts call wrote
    runs,               \* pipelines constructed so far
    artifacts_dir,      \* models/: the directory of every version id
    run_trace,          \* the steps run() has called, with what each raised
    run_raised,         \* the exception run() let escape, "none" so far
    builds,             \* the artifact directories the offline path can deploy
    recommender,        \* the module-level engine reference: <<>> is None
    recency,            \* the cache keys queried since the last clear, by last use
    api_op,             \* the endpoint of the last request
    api_request,        \* its parameters
    api_response,       \* the response it was given
    api_load,           \* what the engine construction in that request did
    api_engine_called,  \* the request reached the engine operation
    engines_built,      \* the engines constructed in this process so far
    metrics_data,       \* metrics_tracker._data
    mx_log,             \* the tracker calls completed since the last reset
    mx_op,              \* the last operation on the middleware or tracker
    mx_dispatch,        \* what dispatch did, if that was the last operation
    mx_metrics,         \* the snapshot get_metrics returned, likewise
    lock,               \* metrics_tracker._lock: "free" or the thread holding it
    threads,            \* what each thread is doing in the tracker
    calls_started,      \* the tracker calls the threads have made
    boto3_available,    \* BOTO3_AVAILABLE: the import of boto3 succeeded
    s3_objects,         \* the keys of the objects in the bucket
    local_model_dir,    \* the names of the files in the local directory
    dl_op,              \* the last storage function called
    dl_call             \* its arguments and what it raised

jaccard_vars == <<genre_matrix, similarity_matrix, written, jaccard_pc>>

fe_vars == <<pandas_cow, fe, fe_op, fe_movies, fe_raised, fe_features,
             fe_matrix, fe_names, fe_fit_completed>>

sim_vars == <<sim, sim_features, sim_matrix, sim_op, sim_methods, sim_raised,
              sim_warnings, sim_returned>>

train_vars == <<settings, pipeline, pipeline_pc, model_dir, saved_files, runs,
                artifacts_dir, run_trace, run_raised>>

api_vars == <<builds, recommender, recency, api_op, api_request, api_response,
              api_load, api_engine_called, engines_built>>

metrics_vars == <<metrics_data, mx_log, mx_op, mx_dispatch, mx_metrics>>

thread_vars == <<lock, threads, calls_started>>

storage_vars == <<boto3_available, s3_objects, local_model_dir, dl_op, dl_call>>

more_vars == <<metrics_vars, thread_vars, storage_vars>>

vars == <<jaccard_vars, fe_vars, sim_vars, train_vars, api_vars, more_vars>>

NoDispatch ==
    [calls |-> <<>>,
     response |-> [status_code |-> 0, headers |-> NoHeaders],
     raised |-> "none",
     outcome |-> Returns(0)]

NoMetrics == get_metrics(NewMetricsData)

IdleMetrics ==
    /\ metrics_data = NewMetricsData
    /\ mx_log = <<>>
    /\ mx_op = "idle"
    /\ mx_dispatch = NoDispatch
    /\ mx_metrics = NoMetrics

\* the tracker call a dispatch made, as the log keeps it
LogEntry(call, request, outcome) ==
    [call |-> call,
     method |-> request.method,
     path |-> request.path,
     status_code |-> outcome.status_code,
     duration_ms |-> request.duration_ms,
     error_type |-> outcome.error_type]

MaxCalls == 4

Threads == {"t1", "t2"}

NoCall == LogEntry("none", [method |-> "", path |-> "", duration_ms |-> 0], Returns(0))

\* the calls a thread can make
ThreadCalls ==
    {LogEntry("record_request",
              [method |-> "GET", path |-> "/health", duration_ms |-> 1],
              Returns(s)) : s \in {200, 500}}
        \cup {LogEntry("record_error",
                       [method |-> "GET", path |-> "/health", duration_ms |-> 1],
                       Raises("RuntimeError")),
              [NoCall EXCEPT !.call = "get_metrics"],
              [NoCall EXCEPT !.call = "reset"]}

\* one access of a method body: the attribute of self._data, the key if the
\* attribute is a dictionary, and what an update adds
Access(field, keyed, key, add) ==
    [field |-> field, keyed |-> keyed, key |-> key, add |-> add]

\* the accesses of each method body, in the order of its statements
Program(c) ==
    CASE c.call = "record_request" ->
            <<Access("total_requests", FALSE, 0, 1),
              Access("total_duration_ms", FALSE, 0, c.duration_ms),
              Access("requests_by_endpoint", TRUE, <<c.method, c.path>>, 1),
              Access("status_codes", TRUE, c.status_code, 1),
              Access(IF IsSuccess(c.status_code) THEN "successful_requests"
                     ELSE "failed_requests", FALSE, 0, 1)>>
      [] c.call = "record_error" ->
            <<Access("failed_requests", FALSE, 0, 1),
              Access("errors_by_type", TRUE, c.error_type, 1)>>
      [] c.call = "get_metrics" ->
            <<Access("total_duration_ms", FALSE, 0, 0),
              Access("total_requests", FALSE, 0, 0),
              Access("successful_requests", FALSE, 0, 0),
              Access("failed_requests", FALSE, 0, 0),
              Access("errors_by_type", FALSE, 0, 0),
              Access("requests_by_endpoint", FALSE, 0, 0),
              Access("status_codes", FALSE, 0, 0)>>
      [] OTHER -> <<Access("_data", FALSE, 0, 0)>>

\* the value an update loads
Load(data, a) ==
    IF a.keyed THEN DictGet(data[a.field], a.key) ELSE data[a.field]

\* the store of an update
Store(data, a, value) ==
    IF a.keyed THEN [data EXCEPT ![a.field] = DictPut(@, a.key, value)]
    ELSE [data EXCEPT ![a.field] = value]

\* with self._lock entered without waiting for the lock
CanAcquireAlways(holder) == TRUE

\* with self._lock: the thread goes on when no thread holds the lock
CanAcquire(holder) == holder = "free"

IdleThread ==
    [pc |-> "idle", call |-> NoCall, i |-> 0, phase |-> "load", tmp |-> 0,
     snap |-> NewMetricsData, seen |-> <<>>, returned |-> FALSE]

IdleThreads ==
    /\ lock = "free"
    /\ threads = [t \in Threads |-> IdleThread]
    /\ calls_started = 0

NoDownload ==
    [version |-> "none", required_files |-> {}, reachable |-> TRUE,
     raised |-> "none"]

IdleStorage ==
    /\ boto3_available = TRUE
    /\ s3_objects = {}
    /\ local_model_dir = {}
    /\ dl_op = "idle"
    /\ dl_call = NoDownload

IdleMore == IdleMetrics /\ IdleThreads /\ IdleStorage


(***************************************************************************)
(* FeatureEngineer.fit_transform and FeatureEngineer.transform             *)
(***************************************************************************)
\* movies_features['year'].fillna(median_year, inplace=True): the fill
\* reaches the table unless pandas hands out a copy of the column
FillYearInplace(t, value) ==
    IF pandas_cow THEN t
    ELSE WithColumn(t, "year", FillNa(Column(t, "year"), value))

\* lines 54-59 and 103-105
ImputeYears(t) ==
    IF NaCount(Column(t, "year")) > 0
    THEN FillYearInplace(t, Median(Column(t, "year")))
    ELSE t

fit_transform(self, movies) ==
    IF "year" \notin movies.columns THEN Raise(self, "KeyError")
    ELSE
    LET movies_features == ImputeYears(movies)
        fit == ScalerFit(Column(movies_features, "year"))
        self_scaled == [self EXCEPT !.scaler = fit.scaler]
    IN  IF fit.raised # "none" THEN Raise(self_scaled, fit.raised)
        ELSE
        LET year_normalized ==
                Scaled(ScalerApply(fit.scaler, Column(movies_features, "year")),
                       self.year_weight)
            with_year == WithColumn(movies_features, "year_normalized",
                                    year_normalized)
            self_fitted == [self_scaled EXCEPT !.is_fitted = TRUE]
            feature_columns == FeatureColumns(self_fitted)
        IN  IF ~HasColumnsOf(with_year, feature_columns)
            THEN Raise(self_fitted, "KeyError")
            ELSE [self |-> self_fitted,
                  raised |-> "none",
                  features |-> with_year,
                  matrix |-> Values(with_year, feature_columns)]

\* transform that fits the scaler again on the table it is given
transform_refitting(self, movies) ==
    IF ~self.is_fitted THEN Raise(self, "ValueError")
    ELSE fit_transform(self, movies)

transform(self, movies) ==
    IF ~self.is_fitted THEN Raise(self, "ValueError")
    ELSE IF "year" \notin movies.columns THEN Raise(self, "KeyError")
    ELSE
    LET movies_features == ImputeYears(movies)
    IN  IF ~self.scaler.fitted THEN Raise(self, "NotFittedError")
        ELSE IF NumRows(movies_features) = 0 THEN Raise(self, "ValueError")
        ELSE
        LET year_normalized ==
                Scaled(ScalerApply(self.scaler, Column(movies_features, "year")),
                       self.year_weight)
            with_year == WithColumn(movies_features, "year_normalized",
                                    year_normalized)
            feature_columns == FeatureColumns(self)
        IN  IF ~HasColumnsOf(with_year, feature_columns)
            THEN Raise(self, "KeyError")
            ELSE [self |-> self,
                  raised |-> "none",
                  features |-> with_year,
                  matrix |-> Values(with_year, feature_columns)]

(***************************************************************************)
(* Input tables of the FeatureEngineer                                     *)
(***************************************************************************)
MaxRows == 2

Flags(genres) == [g \in GenreSet |-> IF g \in genres THEN 1 ELSE 0]

MovieRow(flags, year) ==
    [c \in GenreSet \cup {"year"} |-> IF c = "year" THEN year ELSE flags[c]]

\* the sample items: year known or missing, one genre or two
MovieRows ==
    {MovieRow(Flags({"Action"}), Frac(1980, 1)),
     MovieRow(Flags({"Action"}), Frac(1995, 1)),
     MovieRow(Flags({"Comedy", "Drama"}), Frac(1995, 1)),
     MovieRow(Flags({"Comedy", "Drama"}), NaN)}

MovieTable(rows) == [columns |-> GenreSet \cup {"year"}, rows |-> rows]

FullTables ==
    {MovieTable(r) : r \in UNION {[0 .. n - 1 -> MovieRows] : n \in 0 .. MaxRows}}

\* tables that lack the year column or a configured genre column
DefectiveTables ==
    {DropColumn(t, c) : t \in {u \in FullTables : NumRows(u) = 1},
                        c \in {"year", "Drama"}}

InputTables == FullTables \cup DefectiveTables

(***************************************************************************)
(* TrainingPipeline: load_data, engineer_features, compute_similarities    *)
(* and save_artifacts, run in that order by run().  The artifact directory *)
(* model_dir is a record: files is the set of file names in it, matrices   *)
(* the matrix held by each similarity-matrix file, movies_features the     *)
(* pickled table and metadata the content of metadata.json.                *)
(***************************************************************************)
MaxRuns == 2

\* the version ids a run can be given
Versions == {"v1.0.0", "v1.1.0"}

\* Settings: similarity.methods as configured, similarity.default_method
\* and model.version with their defaults
NewSettings(methods) ==
    [methods |-> methods, default_method |-> "cosine", version |-> "v1.0.0"]

\* main(): pipeline.settings.model.version = args.version
WithVersion(config, version) == [config EXCEPT !.version = version]

NoSettings == NewSettings(<<>>)

\* TrainingPipeline.__init__
NewTrainingPipeline ==
    [feature_engineer |-> NewFeatureEngineer(YearWeight, GenreColumns),
     similarity_computer |-> NewSimilarityComputer,
     movies |-> EmptyTable,
     movies_features |-> EmptyTable,
     feature_matrix |-> <<>>,
     similarity_matrices |-> <<>>]

\* an item table given as a list of rows
TableOf(q) == MovieTable([i \in 0 .. Len(q) - 1 |-> q[i + 1]])

\* the catalogs load_movies_data can hand to the pipeline: the years are
\* filled by the loader, and stay missing only when no title gives a year
CatalogA ==
    TableOf(<<MovieRow(Flags({"Action"}), Frac(1995, 1)),
              MovieRow(Flags({"Action", "Comedy"}), Frac(1995, 1)),
              MovieRow(Flags({}), Frac(1980, 1))>>)

CatalogB ==
    TableOf(<<MovieRow(Flags({"Comedy"}), Frac(1980, 1)),
              MovieRow(Flags({"Action"}), Frac(1995, 1)),
              MovieRow(Flags({"Action"}), Frac(1995, 1))>>)

CatalogSmall == TableOf(<<MovieRow(Flags({"Action"}), Frac(1995, 1))>>)

CatalogNoYear == TableOf(<<MovieRow(Flags({"Comedy", "Drama"}), NaN)>>)

TrainCatalogs == {CatalogA, CatalogB, CatalogNoYear}

\* the values of similarity.methods a configuration file can give
TrainMethods ==
    {<<"cosine", "jaccard">>, <<"cosine">>, <<"jaccard", "pearson">>}

load_data(self, movies) == [self EXCEPT !.movies = movies]

engineer_features(self) ==
    LET r == fit_transform(self.feature_engineer, self.movies)
        called == [self EXCEPT !.feature_engineer = r.self]
    IN  IF r.raised # "none" THEN [self |-> called, raised |-> r.raised]
        ELSE [self |-> [called EXCEPT !.movies_features = r.features,
                                      !.feature_matrix = r.matrix],
              raised |-> "none"]

compute_similarities(self, config) ==
    LET r == compute_all_similarities(self.similarity_computer,
                                      self.feature_matrix, GenreColumns,
                                      self.movies_features,
                                      [given |-> TRUE, list |-> config.methods])
        called == [self EXCEPT !.similarity_computer = r.self]
    IN  IF r.raised # "none" THEN [self |-> called, raised |-> r.raised]
        ELSE [self |-> [called EXCEPT !.similarity_matrices = r.returned],
              raised |-> "none"]

\* f"{method}_similarity_matrix.pkl"
MatrixFile(method) ==
    CASE method = "cosine" -> "cosine_similarity_matrix.pkl"
      [] method = "jaccard" -> "jaccard_similarity_matrix.pkl"
      [] OTHER -> "other_similarity_matrix.pkl"

NoMetadata ==
    [model_version |-> "none",
     n_movies |-> 0,
     n_features |-> 0,
     year_weight |-> Zero,
     genre_columns |-> <<>>,
     similarity_methods |-> {},
     default_similarity_method |-> "none",
     year_range |-> [min |-> NaN, max |-> NaN]]

EmptyDir ==
    [files |-> {},
     matrices |-> <<>>,
     movies_features |-> EmptyTable,
     metadata |-> NoMetadata]

\* lines 172-186 (similarity_methods, a list of distinct keys, held as a set)
Metadata(self, config) ==
    [model_version |-> config.version,
     n_movies |-> NumRows(self.movies),
     n_features |-> Cardinality(DOMAIN self.feature_matrix[0]),
     year_weight |-> YearWeight,
     genre_columns |-> GenreColumns,
     similarity_methods |-> DOMAIN self.similarity_matrices,
     default_similarity_method |-> config.default_method,
     year_range |-> [min |-> NanMin(Column(self.movies, "year")),
                     max |-> NanMax(Column(self.movies, "year"))]]

\* lines 149-153 writing the matrix of the default method only
SavedMatricesDefaultOnly(self, config) ==
    DOMAIN self.similarity_matrices \cap {config.default_method}

\* lines 149-153: the methods whose matrix file the loop writes
SavedMatrices(self, config) == DOMAIN self.similarity_matrices

\* the files one save_artifacts call writes
WrittenFiles(self, config) ==
    {MatrixFile(m) : m \in SavedMatrices(self, config)}
        \cup {"movies_features.pkl", "movies_features.csv",
              "feature_scaler.pkl", "metadata.json", "config_snapshot.json"}

\* mkdir(exist_ok=True): what the directory held before stays, each file
\* written replaces the file of the same name
save_artifacts(self, config, dir) ==
    [files |-> dir.files \cup WrittenFiles(self, config),
     matrices |->
        [m \in DOMAIN dir.matrices \cup SavedMatrices(self, config) |->
            IF m \in SavedMatrices(self, config)
            THEN self.similarity_matrices[m]
            ELSE dir.matrices[m]],
     movies_features |-> self.movies_features,
     metadata |-> Metadata(self, config)]

\* run(): the four steps in the order of lines 219-222
RunSteps ==
    <<"load_data", "engineer_features", "compute_similarities",
      "save_artifacts">>

\* run() going on to the next step whatever the step did
run_step_swallowing(raised, done) == done

\* run(), lines 212-232: a step that returns leads to the next one, a step
\* that raises leaves the try block (the handler logs and re-raises)
run_step(raised, done) == IF raised = "none" THEN done ELSE "failed"

\* models/ before any run
NoVersions == [v \in Versions |-> EmptyDir]

IdleTrain ==
    /\ settings = NoSettings
    /\ pipeline = NewTrainingPipeline
    /\ pipeline_pc = "idle"
    /\ model_dir = EmptyDir
    /\ saved_files = {}
    /\ runs = 0
    /\ artifacts_dir = NoVersions
    /\ run_trace = <<>>
    /\ run_raised = "none"

(***************************************************************************)
(* The artifact directories the offline path leaves behind: a build is     *)
(* what one run() of the pipeline saves into the directory dir.            *)
(***************************************************************************)
\* the training runs behind the deployed builds: catalog and configured
\* similarity.methods
TrainJobs ==
    {[movies |-> CatalogA, methods |-> <<"cosine", "jaccard">>],
     [movies |-> CatalogB, methods |-> <<"cosine">>],
     [movies |-> CatalogSmall, methods |-> <<"jaccard", "pearson">>]}

\* the pipeline of a job after load_data and engineer_features
Engineered(job) ==
    {engineer_features(loaded).self :
        loaded \in {load_data(NewTrainingPipeline, job.movies)}}

\* ... and after compute_similarities with the configured methods
Computed(job) ==
    {[job |-> job, pipeline |-> compute_similarities(engineered, config).self] :
        engineered \in Engineered(job), config \in {NewSettings(job.methods)}}

Trained == UNION {Computed(job) : job \in TrainJobs}

\* what a finished run saves into the directory dir
Build(run, dir) ==
    save_artifacts(run.pipeline, NewSettings(run.job.methods), dir)

\* the builds of the runs into an empty directory, and the one-item build
\* saved over a two-metric build: the cosine file of the earlier build
\* stays beside the new one-row feature table
BuildsFrom(trained) ==
    {EmptyDir}
        \cup {Build(run, EmptyDir) : run \in trained}
        \cup {Build(run, Build(earlier, EmptyDir)) :
                  run \in {x \in trained : x.job.movies = CatalogSmall},
                  earlier \in {x \in trained : Len(x.job.methods) = 2
                                             /\ x.job.methods[1] = "cosine"}}

Builds == UNION {BuildsFrom(trained) : trained \in {Trained}}

(***************************************************************************)
(* ContentBasedRecommender: the online engine.  An item id is the row      *)
(* position plus one.  The cache is a list of entries, the least recently  *)
(* used first.                                                             *)
(***************************************************************************)
CacheSize == 2

\* settings.similarity.default_method
DefaultMethod == "cosine"

NewEngine(similarity_method, cache_size) ==
    [movies |-> EmptyTable,
     similarity |-> <<>>,
     metadata |-> NoMetadata,
     similarity_method |-> similarity_method,
     cache_size |-> cache_size,
     cache |-> <<>>]

RequiredFiles(similarity_method) ==
    {"metadata.json", "movies_features.pkl", MatrixFile(similarity_method)}

\* no comparison of the table's row count with the matrix dimension
DimensionsAgreeUnchecked(movies, matrix) == TRUE

\* the feature table has one row per row of the similarity matrix
DimensionsAgree(movies, matrix) == NumRows(movies) = Shape0(matrix)

\* construction: load the bundle, any failure raised to the caller; engine
\* is the state the constructor had reached when it stopped
ContentBasedRecommender(dir, similarity_method, cache_size) ==
    LET new == NewEngine(similarity_method, cache_size)
    IN  IF ~(RequiredFiles(similarity_method) \subseteq dir.files)
        THEN [raised |-> "ArtifactCorruption", engine |-> new]
        ELSE
        LET read == [new EXCEPT !.movies = dir.movies_features,
                                !.similarity = dir.matrices[similarity_method],
                                !.metadata = dir.metadata]
        IN  IF ~DimensionsAgree(read.movies, read.similarity)
            THEN [raised |-> "ArtifactCorruption", engine |-> read]
            ELSE [raised |-> "none", engine |-> read]

ItemIds(engine) == 1 .. NumRows(engine.movies)

\* info(item_id): <<>> when the item is absent
get_movie_info(engine, movie_id) ==
    IF movie_id \in ItemIds(engine)
    THEN <<[movie_id |-> movie_id,
            year |-> engine.movies.rows[movie_id - 1]["year"]]>>
    ELSE <<>>

\* matrix entries and scores: non-negative, compared by cross products
ValueLess(x, y) == x.num * y.den < y.num * x.den

\* c ranks before d: the greater value first, the smaller id on a tie
Before(c, d, value) ==
    \/ ValueLess(value[d], value[c])
    \/ ~ValueLess(value[c], value[d]) /\ c <= d

RECURSIVE Ranked(_, _)
Ranked(ids, value) ==
    IF ids = {} THEN <<>>
    ELSE LET best == CHOOSE c \in ids : \A d \in ids : Before(c, d, value)
         IN  <<best>> \o Ranked(ids \ {best}, value)

Min(a, b) == IF a <= b THEN a ELSE b

Top(q, n) == SubSeq(q, 1, Min(n, Len(q)))

\* the similarity row of an item, empty when the matrix has none for it
SimilarityRow(engine, movie_id) ==
    IF movie_id - 1 \in DOMAIN engine.similarity
    THEN engine.similarity[movie_id - 1] ELSE <<>>

\* similar(item_id, n) computed from the loaded artifacts
ComputeSimilar(engine, movie_id, n) ==
    LET row == SimilarityRow(engine, movie_id)
        others == {c \in ItemIds(engine) \ {movie_id} : c - 1 \in DOMAIN row}
        value == [c \in others |-> row[c - 1]]
        top == Top(Ranked(others, value), n)
    IN  [k \in 1 .. Len(top) |->
            [movie_id |-> top[k], similarity |-> value[top[k]]]]

\* a cache key that leaves n out
CacheKeyWithoutN(movie_id, n, metric) == <<movie_id, 0, metric>>

CacheKey(movie_id, n, metric) == <<movie_id, n, metric>>

CachedAt(cache, key) == {k \in 1 .. Len(cache) : cache[k].key = key}

Without(q, k) == SubSeq(q, 1, k - 1) \o SubSeq(q, k + 1, Len(q))

\* a hit that leaves the entry where it is
CacheHitInPlace(cache, k) == cache

\* a hit makes the entry the most recently used
CacheHit(cache, k) == Append(Without(cache, k), cache[k])

\* a miss stores the entry; over capacity the least recently used one goes
CacheStore(cache, entry, cache_size) ==
    LET stored == Append(cache, entry)
    IN  IF Len(stored) > cache_size THEN Tail(stored) ELSE stored

\* engine.get_similar_movies: NotFound for an absent item, else the cached
\* or the computed list
engine_get_similar_movies(engine, movie_id, n) ==
    LET key == CacheKey(movie_id, n, engine.similarity_method)
        at == CachedAt(engine.cache, key)
    IN  IF movie_id \notin ItemIds(engine)
        THEN [engine |-> engine, raised |-> "NotFound", value |-> <<>>]
        ELSE IF at # {}
        THEN LET k == CHOOSE k \in at : TRUE
             IN  [engine |-> [engine EXCEPT !.cache = CacheHit(@, k)],
                  raised |-> "none",
                  value |-> engine.cache[k].value]
        ELSE LET value == ComputeSimilar(engine, movie_id, n)
             IN  [engine |-> [engine EXCEPT !.cache =
                                 CacheStore(@, [key |-> key, value |-> value],
                                            engine.cache_size)],
                  raised |-> "none",
                  value |-> value]

engine_clear_cache(engine) == [engine EXCEPT !.cache = <<>>]

get_cache_info(engine) ==
    [currsize |-> Len(engine.cache), maxsize |-> engine.cache_size]

NoCacheInfo == [currsize |-> 0, maxsize |-> 0]

RECURSIVE IsqrtIn(_, _, _)
\* the integer square root of x, known to lie in lo .. hi
IsqrtIn(x, lo, hi) ==
    IF lo = hi THEN lo
    ELSE LET mid == (lo + hi + 1) \div 2
         IN  IF mid * mid <= x THEN IsqrtIn(x, mid, hi)
             ELSE IsqrtIn(x, lo, mid - 1)

\* a matrix entry of [0, 1] as a number, a square root to two decimals
Approx(x) ==
    IF x.kind = "sqrt"
    THEN Frac(IsqrtIn((x.num * 10000) \div x.den, 0, 100), 100)
    ELSE x

RECURSIVE WeightedSum(_, _, _, _)
\* sum over the liked items 1 .. k of rating * similarity to the candidate
WeightedSum(row, user_ratings, liked, k) ==
    IF k = 0 THEN Zero
    ELSE FAdd(IF k \in liked /\ k - 1 \in DOMAIN row
              THEN FMul(user_ratings[k], Approx(row[k - 1])) ELSE Zero,
              WeightedSum(row, user_ratings, liked, k - 1))

RECURSIVE RatingSum(_, _, _)
RatingSum(user_ratings, liked, k) ==
    IF k = 0 THEN Zero
    ELSE FAdd(IF k \in liked THEN user_ratings[k] ELSE Zero,
              RatingSum(user_ratings, liked, k - 1))

Liked(user_ratings, min_rating) ==
    {i \in DOMAIN user_ratings : FLeq(min_rating, user_ratings[i])}

\* the rating-weighted mean similarity of a candidate to the liked items
PredictedScore(engine, user_ratings, liked, c) ==
    LET n == NumRows(engine.movies)
        total == RatingSum(user_ratings, liked \cap ItemIds(engine), n)
    IN  IF total = Zero THEN Zero
        ELSE FDiv(WeightedSum(SimilarityRow(engine, c), user_ratings,
                              liked \cap ItemIds(engine), n),
                  total)

\* engine.get_recommendations: InvalidInput (a ValueError) when nothing is
\* liked; the candidates are the catalog items the caller has not rated
engine_get_recommendations(engine, user_ratings, n, min_rating) ==
    LET liked == Liked(user_ratings, min_rating)
        candidates == ItemIds(engine) \ DOMAIN user_ratings
        value == [c \in candidates |->
                     PredictedScore(engine, user_ratings, liked, c)]
        top == Top(Ranked(candidates, value), n)
    IN  IF liked = {}
        THEN [raised |-> "ValueError", value |-> <<>>]
        ELSE [raised |-> "none",
              value |-> [k \in 1 .. Len(top) |->
                            [movie_id |-> top[k],
                             predicted_score |-> value[top[k]]]]]

(***************************************************************************)
(* The API (api/main.py): the lazily built engine and the endpoints.  A    *)
(* handler returns the new engine reference, the response, what the        *)
(* engine construction did and whether the engine operation was reached.   *)
(***************************************************************************)
NoRequest ==
    [movie_id |-> 0, n |-> 0, user_ratings |-> <<>>, min_rating |-> Zero]

NoBody ==
    [items |-> <<>>, count |-> 0, status |-> "none", loaded |-> FALSE,
     cache_stats |-> NoCacheInfo]

NoResponse == [status |-> 0, body |-> NoBody]

Response(status, body) == [status |-> status, body |-> body]

\* get_recommender that keeps the engine a failed construction left
get_recommender_keeping(rec, dir) ==
    IF rec # <<>> THEN [recommender |-> rec, raised |-> "none",
                        load |-> "not_attempted"]
    ELSE LET r == ContentBasedRecommender(dir, DefaultMethod, CacheSize)
         IN  [recommender |-> <<r.engine>>,
              raised |-> r.raised,
              load |-> IF r.raised = "none" THEN "ok" ELSE r.raised]

\* get_recommender constructing an engine at every call
get_recommender_reloading(rec, dir) ==
    LET r == ContentBasedRecommender(dir, DefaultMethod, CacheSize)
    IN  IF r.raised # "none"
        THEN [recommender |-> rec, raised |-> r.raised, load |-> r.raised]
        ELSE [recommender |-> <<r.engine>>, raised |-> "none", load |-> "ok"]

\* lines 61-73: the assignment happens only when the constructor returns
get_recommender(rec, dir) ==
    IF rec # <<>> THEN [recommender |-> rec, raised |-> "none",
                        load |-> "not_attempted"]
    ELSE LET r == ContentBasedRecommender(dir, DefaultMethod, CacheSize)
         IN  IF r.raised # "none"
             THEN [recommender |-> rec, raised |-> r.raised, load |-> r.raised]
             ELSE [recommender |-> <<r.engine>>, raised |-> "none",
                   load |-> "ok"]

Handled(g, response, engine_called) ==
    [recommender |-> g.recommender,
     response |-> response,
     load |-> g.load,
     engine_called |-> engine_called]

\* a request FastAPI turns down before the handler runs: 422
Rejected(rec) ==
    [recommender |-> rec,
     response |-> Response(422, NoBody),
     load |-> "not_attempted",
     engine_called |-> FALSE]

\* lines 217-246
health_check(rec, dir) ==
    LET g == get_recommender(rec, dir)
        loaded == g.raised = "none"
    IN  Handled(g,
                Response(200,
                         [NoBody EXCEPT
                             !.status = IF loaded THEN "healthy" ELSE "degraded",
                             !.loaded = loaded,
                             !.cache_stats =
                                 IF loaded
                                 THEN get_cache_info(g.recommender[1])
                                 ELSE NoCacheInfo]),
                FALSE)

Half == Frac(1, 2)

Five == Frac(5, 1)

\* validate_ratings without the test for an empty mapping
validate_ratings_nonempty_unchecked(v) ==
    IF \E movie_id \in DOMAIN v :
          \/ movie_id < 1
          \/ ~(FLeq(Half, v[movie_id]) /\ FLeq(v[movie_id], Five))
    THEN "ValueError"
    ELSE "none"

\* lines 106-118
validate_ratings(v) ==
    IF DOMAIN v = {} THEN "ValueError"
    ELSE IF \E movie_id \in DOMAIN v :
               \/ movie_id < 1
               \/ ~(FLeq(Half, v[movie_id]) /\ FLeq(v[movie_id], Five))
    THEN "ValueError"
    ELSE "none"

\* RecommendationRequest: the field bounds and the validator
ValidRecommendationRequest(request) ==
    /\ validate_ratings(request.user_ratings) = "none"
    /\ request.n \in 1 .. 50
    /\ FLeq(Half, request.min_rating) /\ FLeq(request.min_rating, Five)

\* the call handing the engine only the ratings that clear min_rating
RecommendArgsLikedOnly(request) ==
    [user_ratings |-> [i \in Liked(request.user_ratings, request.min_rating) |->
                          request.user_ratings[i]],
     n |-> request.n,
     min_rating |-> request.min_rating]

\* lines 286-290: the arguments of rec.get_recommendations
RecommendArgs(request) ==
    [user_ratings |-> request.user_ratings,
     n |-> request.n,
     min_rating |-> request.min_rating]

\* lines 259-313
get_recommendations(rec, dir, request) ==
    IF ~ValidRecommendationRequest(request) THEN Rejected(rec)
    ELSE
    LET g == get_recommender(rec, dir)
    IN  IF g.raised # "none"
        THEN Handled(g, Response(IF g.raised = "ValueError" THEN 400 ELSE 500,
                                 NoBody), FALSE)
        ELSE
        LET a == RecommendArgs(request)
            e == engine_get_recommendations(g.recommender[1], a.user_ratings,
                                            a.n, a.min_rating)
        IN  IF e.raised = "ValueError" THEN Handled(g, Response(400, NoBody), TRUE)
            ELSE IF e.raised # "none" THEN Handled(g, Response(500, NoBody), TRUE)
            ELSE Handled(g, Response(200, [NoBody EXCEPT !.items = e.value,
                                                         !.count = Len(e.value)]),
                         TRUE)

\* the call asking the engine for one item more
SimilarArgsOneMore(movie_id, n) == [movie_id |-> movie_id, n |-> n + 1]

\* line 384: the arguments of rec.get_similar_movies
SimilarArgs(movie_id, n) == [movie_id |-> movie_id, n |-> n]

\* lines 360-403
get_similar_movies(rec, dir, movie_id, n) ==
    IF ~(movie_id >= 1 /\ n \in 1 .. 50) THEN Rejected(rec)
    ELSE
    LET g == get_recommender(rec, dir)
    IN  IF g.raised # "none" THEN Handled(g, Response(500, NoBody), FALSE)
        ELSE IF get_movie_info(g.recommender[1], movie_id) = <<>>
        THEN Handled(g, Response(404, NoBody), TRUE)
        ELSE
        LET a == SimilarArgs(movie_id, n)
            e == engine_get_similar_movies(g.recommender[1], a.movie_id, a.n)
        IN  IF e.raised # "none" THEN Handled(g, Response(500, NoBody), TRUE)
            ELSE [recommender |-> <<e.engine>>,
                  response |-> Response(200, [NoBody EXCEPT
                                                 !.items = e.value,
                                                 !.count = Len(e.value)]),
                  load |-> g.load,
                  engine_called |-> TRUE]

\* lines 415-445
get_movie_details(rec, dir, movie_id) ==
    IF movie_id < 1 THEN Rejected(rec)
    ELSE
    LET g == get_recommender(rec, dir)
    IN  IF g.raised # "none" THEN Handled(g, Response(500, NoBody), FALSE)
        ELSE IF get_movie_info(g.recommender[1], movie_id) = <<>>
        THEN Handled(g, Response(404, NoBody), TRUE)
        ELSE Handled(g, Response(200, [NoBody EXCEPT !.count = 1]), TRUE)

\* lines 486-508
clear_cache(rec, dir) ==
    LET g == get_recommender(rec, dir)
    IN  IF g.raised # "none" THEN Handled(g, Response(500, NoBody), FALSE)
        ELSE [recommender |-> <<engine_clear_cache(g.recommender[1])>>,
              response |-> Response(200,
                                    [NoBody EXCEPT
                                        !.status = "success",
                                        !.cache_stats =
                                            get_cache_info(g.recommender[1])]),
              load |-> g.load,
              engine_called |-> TRUE]

IdleApi ==
    /\ builds = {}
    /\ recommender = <<>>
    /\ recency = <<>>
    /\ api_op = "idle"
    /\ api_request = NoRequest
    /\ api_response = NoResponse
    /\ api_load = "not_attempted"
    /\ api_engine_called = FALSE
    /\ engines_built = 0

(***************************************************************************)
(* SpecFE: one FeatureEngineer instance, called in any order               *)
(***************************************************************************)
NoMethods == [given |-> FALSE, list |-> <<>>]

IdleSim ==
    /\ sim = NewSimilarityComputer
    /\ sim_features = EmptyTable
    /\ sim_matrix = <<>>
    /\ sim_op = "idle"
    /\ sim_methods = NoMethods
    /\ sim_raised = "none"
    /\ sim_warnings = <<>>
    /\ sim_returned = <<>>

IdleJaccard ==
    /\ genre_matrix = <<>>
    /\ similarity_matrix = <<>>
    /\ written = {}
    /\ jaccard_pc = "idle"

InitFE ==
    /\ pandas_cow \in BOOLEAN
    /\ fe = NewFeatureEngineer(YearWeight, GenreColumns)
    /\ fe_op = "init"
    /\ fe_movies = EmptyTable
    /\ fe_raised = "none"
    /\ fe_features = EmptyTable
    /\ fe_matrix = <<>>
    /\ fe_names = <<>>
    /\ fe_fit_completed = FALSE
    /\ IdleJaccard
    /\ IdleSim
    /\ IdleTrain
    /\ IdleApi
    /\ IdleMore

Returned(op, movies, r) ==
    /\ fe' = r.self
    /\ fe_op' = op
    /\ fe_movies' = movies
    /\ fe_raised' = r.raised
    /\ fe_features' = r.features
    /\ fe_matrix' = r.matrix

FitTransform ==
    \E movies \in InputTables :
        \E r \in {fit_transform(fe, movies)} :
            /\ Returned("fit_transform", movies, r)
            /\ fe_fit_completed' = (fe_fit_completed \/ r.raised = "none")
            /\ UNCHANGED <<pandas_cow, fe_names, jaccard_vars, sim_vars, train_vars,
                           api_vars,
                   more_vars>>

Transform ==
    \E movies \in InputTables :
        \E r \in {transform(fe, movies)} :
            /\ Returned("transform", movies, r)
            /\ UNCHANGED <<pandas_cow, fe_names, fe_fit_completed, jaccard_vars,
                           sim_vars, train_vars, api_vars,
                   more_vars>>

GetFeatureNames ==
    /\ fe_names' = get_feature_names(fe)
    /\ UNCHANGED <<pandas_cow, fe, fe_op, fe_movies, fe_raised, fe_features,
                   fe_matrix, fe_fit_completed, jaccard_vars, sim_vars,
                   train_vars, api_vars,
                   more_vars>>

NextFE == FitTransform \/ Transform \/ GetFeatureNames

SpecFE == InitFE /\ [][NextFE]_vars

(***************************************************************************)
(* SpecJaccard: compute_jaccard_similarity applied to every binary genre   *)
(* matrix within the bounds.                                               *)
(***************************************************************************)
IdleFE ==
    /\ pandas_cow = FALSE
    /\ fe = NewFeatureEngineer(YearWeight, GenreColumns)
    /\ fe_op = "init"
    /\ fe_movies = EmptyTable
    /\ fe_raised = "none"
    /\ fe_features = EmptyTable
    /\ fe_matrix = <<>>
    /\ fe_names = <<>>
    /\ fe_fit_completed = FALSE

InitJaccard ==
    /\ genre_matrix \in GenreMatrices
    /\ similarity_matrix = <<>>
    /\ written = {}
    /\ jaccard_pc = "call"
    /\ IdleFE
    /\ IdleSim
    /\ IdleTrain
    /\ IdleApi
    /\ IdleMore

CallJaccard ==
    /\ jaccard_pc = "call"
    /\ similarity_matrix' = compute_jaccard_similarity(genre_matrix)
    /\ written' = JaccardRun(genre_matrix).written
    /\ jaccard_pc' = "done"
    /\ UNCHANGED <<genre_matrix, fe_vars, sim_vars, train_vars, api_vars,
                   more_vars>>

NextJaccard == CallJaccard

SpecJaccard == InitJaccard /\ [][NextJaccard]_vars

(***************************************************************************)
(* SpecSim: one SimilarityComputer, compute_all_similarities called any    *)
(* number of times on the features fit_transform made of a catalog whose   *)
(* years are all known (so the feature matrix is finite and non-empty).    *)
(***************************************************************************)
MaxMethods == 2

MethodNames == {"cosine", "jaccard", "pearson"}

MethodLists ==
    {[given |-> TRUE, list |-> q] :
        q \in UNION {[1 .. n -> MethodNames] : n \in 0 .. MaxMethods}}

\* the catalog items: the years are known; one item has no genre and the
\* earliest year, so that its feature vector is the zero vector
CatalogRows ==
    {MovieRow(Flags({"Action"}), Frac(1995, 1)),
     MovieRow(Flags({"Action", "Comedy"}), Frac(1995, 1)),
     MovieRow(Flags({}), Frac(1980, 1))}

Catalogs ==
    {MovieTable(r) : r \in UNION {[0 .. n - 1 -> CatalogRows] : n \in 1 .. MaxRows}}

InitSim ==
    /\ IdleFE
    /\ IdleJaccard
    /\ IdleTrain
    /\ IdleApi
    /\ IdleMore
    /\ sim = NewSimilarityComputer
    /\ \E catalog \in Catalogs :
          \E r \in {fit_transform(NewFeatureEngineer(YearWeight, GenreColumns),
                                 catalog)} :
              /\ sim_features = r.features
              /\ sim_matrix = r.matrix
    /\ sim_op = "init"
    /\ sim_methods = NoMethods
    /\ sim_raised = "none"
    /\ sim_warnings = <<>>
    /\ sim_returned = <<>>

ComputeAllSimilarities ==
    \E methods \in MethodLists \cup {NoMethods} :
        \E r \in {compute_all_similarities(sim, sim_matrix, GenreColumns,
                                          sim_features, methods)} :
            /\ sim' = r.self
            /\ sim_op' = "compute_all"
            /\ sim_methods' = methods
            /\ sim_raised' = r.raised
            /\ sim_warnings' = r.warnings
            /\ sim_returned' = r.returned
            /\ UNCHANGED <<sim_features, sim_matrix, fe_vars, jaccard_vars,
                           train_vars, api_vars,
                   more_vars>>

NextSim == ComputeAllSimilarities

SpecSim == InitSim /\ [][NextSim]_vars

(***************************************************************************)
(* SpecTrain: training pipelines run one after another against the same    *)
(* versioned artifact directory, each built from its own configuration.    *)
(***************************************************************************)
InitTrain ==
    /\ IdleFE
    /\ IdleJaccard
    /\ IdleSim
    /\ settings = NoSettings
    /\ pipeline = NewTrainingPipeline
    /\ pipeline_pc = "none"
    /\ model_dir = EmptyDir
    /\ saved_files = {}
    /\ runs = 0
    /\ artifacts_dir = NoVersions
    /\ run_trace = <<>>
    /\ run_raised = "none"
    /\ IdleApi
    /\ IdleMore

\* one step of run() was called and raised what it raised
Stepped(step, raised) ==
    /\ run_trace' = Append(run_trace, [step |-> step, raised |-> raised])
    /\ run_raised' = raised

\* main(): TrainingPipeline(config_path), the version of the command line
\* put over the configured one, then run() entered
NewPipeline ==
    /\ pipeline_pc \in {"none", "saved", "failed"}
    /\ runs < MaxRuns
    /\ \E methods \in TrainMethods, version \in Versions :
          settings' = WithVersion(NewSettings(methods), version)
    /\ pipeline' = NewTrainingPipeline
    /\ pipeline_pc' = "init"
    /\ runs' = runs + 1
    /\ run_trace' = <<>>
    /\ run_raised' = "none"
    /\ UNCHANGED <<model_dir, saved_files, artifacts_dir, fe_vars,
                   jaccard_vars, sim_vars, api_vars,
                   more_vars>>

\* load_data: the catalog file is read, or is not there
LoadData ==
    /\ pipeline_pc = "init"
    /\ \/ /\ \E movies \in TrainCatalogs :
                pipeline' = load_data(pipeline, movies)
          /\ pipeline_pc' = run_step("none", "loaded")
          /\ Stepped("load_data", "none")
       \/ /\ pipeline' = pipeline
          /\ pipeline_pc' = run_step("FileNotFoundError", "loaded")
          /\ Stepped("load_data", "FileNotFoundError")
    /\ UNCHANGED <<settings, model_dir, saved_files, runs, artifacts_dir,
                   fe_vars, jaccard_vars, sim_vars, api_vars,
                   more_vars>>

EngineerFeatures ==
    /\ pipeline_pc = "loaded"
    /\ \E r \in {engineer_features(pipeline)} :
          /\ pipeline' = r.self
          /\ pipeline_pc' = run_step(r.raised, "engineered")
          /\ Stepped("engineer_features", r.raised)
    /\ UNCHANGED <<settings, model_dir, saved_files, runs, artifacts_dir,
                   fe_vars, jaccard_vars, sim_vars, api_vars,
                   more_vars>>

ComputeSimilarities ==
    /\ pipeline_pc = "engineered"
    /\ \E r \in {compute_similarities(pipeline, settings)} :
          /\ pipeline' = r.self
          /\ pipeline_pc' = run_step(r.raised, "computed")
          /\ Stepped("compute_similarities", r.raised)
    /\ UNCHANGED <<settings, model_dir, saved_files, runs, artifacts_dir,
                   fe_vars, jaccard_vars, sim_vars, api_vars,
                   more_vars>>

\* save_artifacts: model_dir is the directory of the configured version
SaveArtifacts ==
    /\ pipeline_pc = "computed"
    /\ \E saved \in {save_artifacts(pipeline, settings,
                                    artifacts_dir[settings.version])} :
          /\ model_dir' = saved
          /\ artifacts_dir' = [artifacts_dir EXCEPT ![settings.version] = saved]
    /\ saved_files' = WrittenFiles(pipeline, settings)
    /\ pipeline_pc' = run_step("none", "saved")
    /\ Stepped("save_artifacts", "none")
    /\ UNCHANGED <<settings, pipeline, runs, fe_vars, jaccard_vars, sim_vars,
                   api_vars,
                   more_vars>>

NextTrain ==
    \/ NewPipeline
    \/ LoadData
    \/ EngineerFeatures
    \/ ComputeSimilarities
    \/ SaveArtifacts

SpecTrain == InitTrain /\ [][NextTrain]_vars

(***************************************************************************)
(* SpecApi: one API process serving requests in any order, while the       *)
(* offline path may replace the artifact directory between requests.       *)
(***************************************************************************)
\* the (movie_id, n) of the similar requests: items of the catalog, an
\* absent item, an id FastAPI turns down
SimilarRequests ==
    {[NoRequest EXCEPT !.movie_id = q[1], !.n = q[2]] :
        q \in {<<1, 1>>, <<1, 3>>, <<2, 1>>, <<3, 3>>, <<4, 1>>, <<0, 1>>}}

\* a rating profile given as a list of <<movie_id, rating>>
Profile(q) ==
    [i \in {q[k][1] : k \in 1 .. Len(q)} |->
        q[CHOOSE k \in 1 .. Len(q) : q[k][1] = i][2]]

Profiles ==
    {<<>>,
     Profile(<<<<1, Frac(5, 1)>>>>),
     Profile(<<<<1, Frac(2, 1)>>>>),
     Profile(<<<<1, Frac(5, 1)>>, <<2, Frac(2, 1)>>>>),
     Profile(<<<<3, Frac(4, 1)>>, <<2, Frac(9, 2)>>>>)}

\* every profile asked for one item at the default min_rating, and one
\* request for two items
RecommendRequests ==
    {[NoRequest EXCEPT !.user_ratings = p, !.n = 1,
                       !.min_rating = Frac(7, 2)] : p \in Profiles}
        \cup {[NoRequest EXCEPT !.user_ratings = Profile(<<<<1, Frac(5, 1)>>>>),
                                !.n = 2, !.min_rating = Frac(7, 2)]}

InitApi ==
    /\ IdleFE
    /\ IdleJaccard
    /\ IdleSim
    /\ settings = NoSettings
    /\ pipeline = NewTrainingPipeline
    /\ pipeline_pc = "idle"
    /\ saved_files = {}
    /\ runs = 0
    /\ artifacts_dir = NoVersions
    /\ run_trace = <<>>
    /\ run_raised = "none"
    /\ IdleMore
    /\ engines_built = 0
    /\ builds = Builds
    /\ model_dir \in builds
    /\ recommender = <<>>
    /\ recency = <<>>
    /\ api_op = "start"
    /\ api_request = NoRequest
    /\ api_response = NoResponse
    /\ api_load = "not_attempted"
    /\ api_engine_called = FALSE

\* the offline path saves another build into the directory
Deploy ==
    /\ \E dir \in builds \ {model_dir} : model_dir' = dir
    /\ api_op' = "deploy"
    /\ api_request' = NoRequest
    /\ api_response' = NoResponse
    /\ api_load' = "not_attempted"
    /\ api_engine_called' = FALSE
    /\ UNCHANGED <<builds, recommender, recency, engines_built, settings,
                   pipeline, pipeline_pc, saved_files, runs, artifacts_dir,
                   run_trace, run_raised, fe_vars, jaccard_vars, sim_vars,
                   more_vars>>

Served(op, request, r) ==
    /\ recommender' = r.recommender
    /\ api_op' = op
    /\ api_request' = request
    /\ api_response' = r.response
    /\ api_load' = r.load
    /\ api_engine_called' = r.engine_called
    /\ engines_built' = IF r.load = "ok" THEN engines_built + 1
                        ELSE engines_built
    /\ UNCHANGED <<builds, train_vars, fe_vars, jaccard_vars, sim_vars,
                   more_vars>>

\* the key moved to the most recently used end
Touched(q, key) ==
    Append(SelectSeq(q, LAMBDA x : x # key), key)

HealthCheck ==
    \E r \in {health_check(recommender, model_dir)} :
        /\ Served("health", NoRequest, r)
        /\ UNCHANGED recency

GetRecommendations ==
    \E request \in RecommendRequests :
        \E r \in {get_recommendations(recommender, model_dir, request)} :
            /\ Served("recommend", request, r)
            /\ UNCHANGED recency

GetSimilarMovies ==
    \E request \in SimilarRequests :
        \E r \in {get_similar_movies(recommender, model_dir,
                                     request.movie_id, request.n)} :
            /\ Served("similar", request, r)
            /\ recency' = IF r.response.status = 200
                          THEN Touched(recency,
                                       <<request.movie_id, request.n,
                                         DefaultMethod>>)
                          ELSE recency

GetMovieDetails ==
    \E request \in {[NoRequest EXCEPT !.movie_id = i] : i \in {1, 4}} :
        \E r \in {get_movie_details(recommender, model_dir, request.movie_id)} :
            /\ Served("details", request, r)
            /\ UNCHANGED recency

ClearCache ==
    \E r \in {clear_cache(recommender, model_dir)} :
        /\ Served("clear", NoRequest, r)
        /\ recency' = IF r.response.status = 200 THEN <<>> ELSE recency

NextApi ==
    \/ Deploy
    \/ HealthCheck
    \/ GetRecommendations
    \/ GetSimilarMovies
    \/ GetMovieDetails
    \/ ClearCache

SpecApi == InitApi /\ [][NextApi]_vars

(***************************************************************************)
(* SpecMetrics: requests pass through RequestLoggingMiddleware one after   *)
(* another (the event loop runs the code between two awaits of dispatch    *)
(* without interruption); GET /metrics is such a request, and reset is     *)
(* called from outside.                                                    *)
(***************************************************************************)
MaxRequests == 4

\* the requests served, with the time each takes
Requests ==
    {[method |-> "GET", path |-> "/health", duration_ms |-> 1],
     [method |-> "POST", path |-> "/recommend", duration_ms |-> 2]}

\* the statuses the application answers with, a redirect among them
StatusCodes == {200, 307, 404, 500}

Outcomes ==
    {Returns(s) : s \in StatusCodes} \cup {Raises(e) : e \in BaseExceptionTypes}

InitMetrics ==
    /\ IdleFE
    /\ IdleJaccard
    /\ IdleSim
    /\ IdleTrain
    /\ IdleApi
    /\ metrics_data = NewMetricsData
    /\ mx_log = <<>>
    /\ mx_op = "init"
    /\ mx_dispatch = NoDispatch
    /\ mx_metrics = NoMetrics
    /\ IdleThreads
    /\ IdleStorage

OtherThanMetrics ==
    <<jaccard_vars, fe_vars, sim_vars, train_vars, api_vars, thread_vars,
      storage_vars>>

Dispatched(op, request, outcome, r) ==
    /\ metrics_data' = r.data
    /\ mx_op' = op
    /\ mx_dispatch' = [calls |-> r.calls, response |-> r.response,
                       raised |-> r.raised, outcome |-> outcome]
    /\ mx_log' = mx_log \o [i \in 1 .. Len(r.calls) |->
                               LogEntry(r.calls[i], request, outcome)]
    /\ UNCHANGED OtherThanMetrics

\* one request to an endpoint of the application
Dispatch ==
    /\ Len(mx_log) < MaxRequests
    /\ \E request \in Requests, outcome \in Outcomes :
          \E r \in {dispatch(metrics_data, request, outcome)} :
              Dispatched("dispatch", request, outcome, r)
    /\ mx_metrics' = NoMetrics

\* GET /metrics: the handler returns the snapshot, then dispatch records
\* the request itself
GetMetrics ==
    /\ Len(mx_log) < MaxRequests
    /\ mx_metrics' = get_metrics(metrics_data)
    /\ \E request \in {[method |-> "GET", path |-> "/metrics",
                       duration_ms |-> 1]} :
          \E r \in {dispatch(metrics_data, request, Returns(200))} :
              Dispatched("metrics", request, Returns(200), r)

Reset ==
    /\ mx_op # "reset"
    /\ metrics_data' = reset(metrics_data)
    /\ mx_log' = <<>>
    /\ mx_op' = "reset"
    /\ mx_dispatch' = NoDispatch
    /\ mx_metrics' = NoMetrics
    /\ UNCHANGED OtherThanMetrics

NextMetrics ==
    \/ Dispatch
    \/ GetMetrics
    \/ Reset

SpecMetrics == InitMetrics /\ [][NextMetrics]_vars

(***************************************************************************)
(* SpecThreads: the methods of one MetricsTracker called from several      *)
(* threads.  A thread takes self._lock, runs the statements of the method  *)
(* one memory access at a time (x += 1 is a load followed by a store, and  *)
(* another thread may run between the two), and gives the lock back.       *)
(***************************************************************************)
InitThreads ==
    /\ IdleFE
    /\ IdleJaccard
    /\ IdleSim
    /\ IdleTrain
    /\ IdleApi
    /\ IdleMetrics
    /\ IdleThreads
    /\ IdleStorage

OtherThanThreads ==
    <<mx_op, mx_dispatch, mx_metrics, jaccard_vars, fe_vars, sim_vars,
      train_vars, api_vars, storage_vars>>

\* a thread calls a method of the tracker
ThreadCall(t) ==
    /\ threads[t].pc = "idle"
    /\ calls_started < MaxCalls
    /\ calls_started' = calls_started + 1
    /\ \E c \in ThreadCalls :
          threads' = [threads EXCEPT ![t] =
                         [IdleThread EXCEPT !.pc = "acquire", !.call = c]]
    /\ UNCHANGED <<lock, metrics_data, mx_log, OtherThanThreads>>

\* with self._lock: entered
ThreadAcquire(t) ==
    /\ threads[t].pc = "acquire"
    /\ CanAcquire(lock)
    /\ lock' = t
    /\ threads' = [threads EXCEPT ![t].pc = "run", ![t].i = 1,
                                  ![t].seen = mx_log]
    /\ UNCHANGED <<calls_started, metrics_data, mx_log, OtherThanThreads>>

\* one memory access of the method body
ThreadStep(t) ==
    /\ threads[t].pc = "run"
    /\ threads[t].i <= Len(Program(threads[t].call))
    /\ LET th == threads[t]
           a == Program(th.call)[th.i]
       IN  CASE th.call.call = "get_metrics" ->
                    /\ threads' = [threads EXCEPT
                                      ![t].snap[a.field] = metrics_data[a.field],
                                      ![t].i = @ + 1]
                    /\ UNCHANGED metrics_data
             [] th.call.call = "reset" ->
                    /\ metrics_data' = reset(metrics_data)
                    /\ threads' = [threads EXCEPT ![t].i = @ + 1]
             [] OTHER ->
                    IF th.phase = "load"
                    THEN /\ threads' = [threads EXCEPT
                                           ![t].tmp = Load(metrics_data, a),
                                           ![t].phase = "store"]
                         /\ UNCHANGED metrics_data
                    ELSE /\ metrics_data' = Store(metrics_data, a, th.tmp + a.add)
                         /\ threads' = [threads EXCEPT ![t].phase = "load",
                                                       ![t].i = @ + 1]
    /\ UNCHANGED <<lock, calls_started, mx_log, OtherThanThreads>>

\* the with block left: the call is complete
ThreadRelease(t) ==
    /\ threads[t].pc = "run"
    /\ threads[t].i > Len(Program(threads[t].call))
    /\ lock' = "free"
    /\ threads' = [threads EXCEPT
                      ![t].pc = "idle",
                      ![t].returned = (threads[t].call.call = "get_metrics")]
    /\ mx_log' = CASE threads[t].call.call = "reset" -> <<>>
                   [] threads[t].call.call = "get_metrics" -> mx_log
                   [] OTHER -> Append(mx_log, threads[t].call)
    /\ UNCHANGED <<calls_started, metrics_data, OtherThanThreads>>

NextThreads ==
    \E t \in Threads :
        \/ ThreadCall(t)
        \/ ThreadAcquire(t)
        \/ ThreadStep(t)
        \/ ThreadRelease(t)

SpecThreads == InitThreads /\ [][NextThreads]_vars

(***************************************************************************)
(* SpecStorage: model versions fetched from a bucket that holds any        *)
(* subset of a few objects, into one local directory.                      *)
(***************************************************************************)
\* the objects the bucket may hold under the models/ prefix
ObjectKeys ==
    {<<"v1.0.0", "cosine_similarity_matrix.pkl">>,
     <<"v1.0.0", "movies_features.pkl">>,
     <<"v1.0.0", "metadata.json">>,
     <<"v1.0.0", "backup", "metadata.json">>,
     <<"v1.1.0", "metadata.json">>}

\* the required_files arguments: None, one name, the list of the helper
RequiredLists == {{}, {"metadata.json"}, RequiredModelFiles}

InitStorage ==
    /\ IdleFE
    /\ IdleJaccard
    /\ IdleSim
    /\ IdleTrain
    /\ IdleApi
    /\ IdleMetrics
    /\ IdleThreads
    /\ boto3_available \in BOOLEAN
    /\ s3_objects \in SUBSET ObjectKeys
    /\ local_model_dir = {}
    /\ dl_op = "init"
    /\ dl_call = NoDownload

OtherThanStorage ==
    <<jaccard_vars, fe_vars, sim_vars, train_vars, api_vars, metrics_vars,
      thread_vars>>

\* storage.download_model_version(version, local_dir, required_files)
DownloadModelVersion ==
    /\ boto3_available
    /\ \E version \in Versions, required_files \in RequiredLists,
          reachable \in BOOLEAN :
          \E r \in {download_model_version(s3_objects, local_model_dir,
                                           version, required_files, reachable)} :
              /\ local_model_dir' = r.local
              /\ dl_call' = [version |-> version,
                             required_files |-> required_files,
                             reachable |-> reachable, raised |-> r.raised]
    /\ dl_op' = "download_model_version"
    /\ UNCHANGED <<boto3_available, s3_objects, OtherThanStorage>>

\* download_models_from_s3(version, local_dir)
DownloadModelsFromS3 ==
    /\ \E version \in Versions, reachable \in BOOLEAN :
          \E r \in {download_models_from_s3(boto3_available, s3_objects,
                                            local_model_dir, version,
                                            reachable)} :
              /\ local_model_dir' = r.local
              /\ dl_call' = [version |-> version,
                             required_files |-> RequiredModelFiles,
                             reachable |-> reachable, raised |-> r.raised]
    /\ dl_op' = "download_models_from_s3"
    /\ UNCHANGED <<boto3_available, s3_objects, OtherThanStorage>>

NextStorage ==
    \/ DownloadModelVersion
    \/ DownloadModelsFromS3

SpecStorage == InitStorage /\ [][NextStorage]_vars

(***************************************************************************)
(* Properties of compute_jaccard_similarity (checked under SpecJaccard)    *)
(***************************************************************************)
JaccardDone == jaccard_pc = "done"

Items == DOMAIN genre_matrix

\* the genre set of item i, read off the binary matrix
Genres(i) == {k \in DOMAIN genre_matrix[i] : genre_matrix[i][k] = 1}

C2_JaccardIsIntersectionOverUnion ==
    JaccardDone =>
        \A i, j \in Items :
            /\ Genres(i) \cup Genres(j) # {} =>
                similarity_matrix[i][j] =
                    Frac(Cardinality(Genres(i) \cap Genres(j)),
                         Cardinality(Genres(i) \cup Genres(j)))
            /\ (Genres(i) = Genres(j) /\ Genres(i) # {}) =>
                similarity_matrix[i][j] = One
            /\ Genres(i) \cap Genres(j) = {} =>
                similarity_matrix[i][j] = Zero

C2_Witness ==
    /\ JaccardDone
    /\ \E i, j, k \in Items :
        /\ i # j /\ Genres(i) = Genres(j) /\ Genres(i) # {}
        /\ Genres(k) # {} /\ Genres(i) \cap Genres(k) = {}
        /\ similarity_matrix[i][j] = One
        /\ similarity_matrix[i][k] = Zero

\* C3: when both items of a pair have no genre at all (an item paired with
\* itself included) the stored entry is exactly 0, and no entry of the
\* matrix is NaN or infinite.
C3_EmptyPairIsZero ==
    JaccardDone =>
        /\ \A i, j \in Items :
            (Genres(i) = {} /\ Genres(j) = {}) => similarity_matrix[i][j] = Zero
        /\ \A i, j \in Items : IsNumber(similarity_matrix[i][j])

C3_Witness ==
    /\ JaccardDone
    /\ \E i, j \in Items :
        /\ i # j
        /\ Genres(i) = {} /\ Genres(j) = {}
        /\ similarity_matrix[i][j] = Zero
        /\ similarity_matrix[i][i] = Zero

\* C4: the Jaccard matrix is symmetric, M[i][j] = M[j][i] for all i, j, and
\* every cell of the n x n matrix is stored by the loop.
C4_SymmetricAndFullyWritten ==
    JaccardDone =>
        /\ DOMAIN similarity_matrix = Items
        /\ \A i \in Items : DOMAIN similarity_matrix[i] = Items
        /\ \A i, j \in Items : similarity_matrix[i][j] = similarity_matrix[j][i]
        /\ written = Items \X Items

C4_Witness ==
    /\ JaccardDone
    /\ Shape0(genre_matrix) >= 3
    /\ \E i, j \in Items :
        /\ i < j
        /\ similarity_matrix[i][j] = Frac(1, 2)
        /\ similarity_matrix[j][i] = Frac(1, 2)
        /\ <<j, i>> \in written


(***************************************************************************)
(* Properties of the FeatureEngineer (checked under SpecFE)                *)
(***************************************************************************)
FeReturned(op) == fe_op = op /\ fe_raised = "none"

\* C7: transform fails with an error whenever no fit_transform call has
\* completed successfully on the instance before it (an earlier
\* fit_transform that raised part-way included); it succeeds only after a
\* successful fit_transform.
C7_TransformNeedsCompletedFit ==
    FeReturned("transform") => fe_fit_completed

\* the scaled-year value of a returned row lies in [0, year_weight]
ScaledYearInRange(x) == FLeq(Zero, x) /\ FLeq(x, fe.year_weight)

\* C8: in every feature vector produced by fit_transform and by transform
\* the scaled-year value lies in [0, year_weight].
C8_ScaledYearWithinWeight ==
    (FeReturned("fit_transform") \/ FeReturned("transform")) =>
        \A i \in DOMAIN fe_matrix :
            /\ ScaledYearInRange(fe_matrix[i][Len(fe.genre_columns)])
            /\ ScaledYearInRange(fe_features.rows[i]["year_normalized"])

\* C9: a transform call leaves the fitted scaler parameters, year_weight and
\* the genre column order unchanged, and a transform repeated on the same
\* input returns the same feature matrix, laid out in the genre order used
\* at fit time.
C9_TransformLeavesFitUnchanged ==
    [][fe_op' = "transform" =>
        /\ fe'.scaler = fe.scaler
        /\ fe'.year_weight = fe.year_weight
        /\ fe'.genre_columns = fe.genre_columns
        /\ fe'.is_fitted = fe.is_fitted
        /\ (fe_op = "transform" /\ fe_movies' = fe_movies) =>
              /\ fe_raised' = fe_raised
              /\ fe_matrix' = fe_matrix
        /\ fe_raised' = "none" =>
              \A i \in DOMAIN fe_matrix' :
                  \A k \in 1 .. Len(fe.genre_columns) :
                      fe_matrix'[i][k - 1] =
                          Frac(fe_movies'.rows[i][GenreColumns[k]], 1)
      ]_vars

\* a transform returned rows scaled by the parameters of an earlier fit on
\* another corpus, which a fit on its own input would not have produced
C9_Witness ==
    /\ FeReturned("transform")
    /\ fe_fit_completed
    /\ NumRows(fe_movies) = 2
    /\ fe.scaler.data_min # NanMin(Column(fe_movies, "year"))
    /\ \E i \in DOMAIN fe_matrix :
          /\ IsNumber(fe_matrix[i][Len(fe.genre_columns)])
          /\ ~ScaledYearInRange(fe_matrix[i][Len(fe.genre_columns)])

\* C10: every row of the feature matrix returned by fit_transform and by
\* transform has exactly G+1 columns, and column k holds the table column
\* named by entry k of get_feature_names(): the G genre labels in configured
\* order, then "year_normalized" last.
C10_ColumnsFollowFeatureNames ==
    LET names == get_feature_names(fe)
        G == Len(GenreColumns)
    IN  /\ Len(names) = G + 1
        /\ \A k \in 1 .. G : names[k] = GenreColumns[k]
        /\ names[G + 1] = "year_normalized"
        /\ fe_names # <<>> => fe_names = names
        /\ (FeReturned("fit_transform") \/ FeReturned("transform")) =>
              \A i \in DOMAIN fe_matrix :
                  /\ DOMAIN fe_matrix[i] = 0 .. G
                  /\ \A k \in 1 .. G + 1 :
                        fe_matrix[i][k - 1] =
                            (IF names[k] \in FloatColumns
                             THEN fe_features.rows[i][names[k]]
                             ELSE Frac(fe_features.rows[i][names[k]], 1))

C10_Witness ==
    /\ FeReturned("transform")
    /\ fe_names = <<"Action", "Comedy", "Drama", "year_normalized">>
    /\ NumRows(fe_features) = 2
    /\ \E i \in DOMAIN fe_matrix :
          /\ fe_matrix[i][0] = Zero
          /\ fe_matrix[i][1] = One
          /\ fe_matrix[i][2] = One
          /\ fe_matrix[i][3] = fe.year_weight


\* C11: after fit_transform no item of the returned table has a missing
\* year: an item whose year was missing in the input carries the median of
\* the years present in that corpus, and an item whose year was present
\* keeps it (the input table itself is the caller's, left as it was given).
C11_NoMissingYearAfterFit ==
    FeReturned("fit_transform") =>
        /\ DOMAIN fe_features.rows = DOMAIN fe_movies.rows
        /\ \A i \in DOMAIN fe_features.rows :
              /\ ~IsNa(fe_features.rows[i]["year"])
              /\ fe_features.rows[i]["year"] =
                    IF IsNa(fe_movies.rows[i]["year"])
                    THEN Median(Column(fe_movies, "year"))
                    ELSE fe_movies.rows[i]["year"]

(***************************************************************************)
(* Properties of compute_all_similarities (checked under SpecSim)          *)
(***************************************************************************)
SimReturned == sim_op = "compute_all" /\ sim_raised = "none"

\* an entry, a rational or a signed square root, lies in [0, 1]
InUnitInterval(x) ==
    CASE x.kind = "num" -> 0 <= x.num /\ x.num <= x.den
      [] x.kind = "sqrt" -> 0 <= x.num /\ x.num <= x.den
      [] OTHER -> FALSE

Recognized(method) == method \in SeqToSet(SUPPORTED_METHODS)

RequestedList == IF sim_methods.given THEN sim_methods.list ELSE SUPPORTED_METHODS

\* C6: given a metric list with unrecognized names, compute_all_similarities
\* skips each of them with a warning, raises no error, and still computes
\* every recognized metric of the list, wherever the unrecognized names
\* stand in it.
C6_UnknownMethodsSkipped ==
    sim_op = "compute_all" =>
        /\ sim_raised = "none"
        /\ sim_warnings = SelectSeq(RequestedList, LAMBDA m : ~Recognized(m))
        /\ \A m \in SeqToSet(RequestedList) :
              Recognized(m) =>
                  /\ m \in DOMAIN sim_returned
                  /\ m = "cosine" =>
                        sim_returned[m] =
                            compute_cosine_similarity(sim_matrix).matrix
                  /\ m = "jaccard" =>
                        sim_returned[m] =
                            compute_jaccard_similarity(
                                GenreValues(sim_features, GenreColumns))

C6_Witness ==
    /\ SimReturned
    /\ sim_methods.given
    /\ sim_methods.list = <<"pearson", "jaccard">>
    /\ sim_warnings = <<"pearson">>
    /\ "jaccard" \in DOMAIN sim_returned
    /\ "cosine" \notin DOMAIN sim_returned
    /\ Shape0(sim_returned["jaccard"]) = 2

(***************************************************************************)
(* Properties of the TrainingPipeline (checked under SpecTrain)            *)
(***************************************************************************)
Saved == pipeline_pc = "saved"

\* C20: after save_artifacts completes, the artifact directory holds the
\* similarity-matrix file of every metric that was computed, holding that
\* metric's matrix; the metadata field similarity_methods lists exactly the
\* computed metrics, every listed metric has its file, and the call wrote
\* no similarity-matrix file for a metric that is not listed.
C20_MatrixFilesMatchMetadata ==
    Saved =>
        /\ model_dir.metadata.similarity_methods =
              DOMAIN pipeline.similarity_matrices
        /\ \A m \in model_dir.metadata.similarity_methods :
              /\ MatrixFile(m) \in model_dir.files
              /\ MatrixFile(m) \in saved_files
              /\ model_dir.matrices[m] = pipeline.similarity_matrices[m]
        /\ \A m \in {"cosine", "jaccard", "pearson"} :
              MatrixFile(m) \in saved_files =>
                  m \in model_dir.metadata.similarity_methods

\* a save that wrote two matrix files, and a save of a one-metric run into a
\* directory that already held the files of a two-metric run
C20_Witness ==
    /\ Saved
    /\ runs = 2
    /\ model_dir.metadata.similarity_methods = {"cosine"}
    /\ "jaccard_similarity_matrix.pkl" \in model_dir.files
    /\ "jaccard_similarity_matrix.pkl" \notin saved_files

(***************************************************************************)
(* Properties of the API and its engine (checked under SpecApi)            *)
(***************************************************************************)
Answered(op) == api_op = op /\ api_response.status = 200

\* C12: for every loaded catalog, item id and n, the list a similar request
\* returns never includes the queried id itself, has at most n entries, and
\* its similarities are in non-increasing order.
C12_SimilarExcludesSelfAtMostNSorted ==
    Answered("similar") =>
        LET items == api_response.body.items
        IN  /\ \A k \in 1 .. Len(items) :
                  items[k].movie_id # api_request.movie_id
            /\ Len(items) <= api_request.n
            /\ api_response.body.count = Len(items)
            /\ \A k \in 1 .. Len(items) - 1 :
                  ~ValueLess(items[k].similarity, items[k + 1].similarity)

\* a request for more items than the catalog has besides the queried one,
\* answered with two items of different similarity
C12_Witness ==
    /\ Answered("similar")
    /\ api_request.n = 3
    /\ Len(api_response.body.items) = 2
    /\ ValueLess(api_response.body.items[2].similarity,
                 api_response.body.items[1].similarity)

\* C13: for every rating profile, n and min_rating, a recommend request
\* never returns an item whose id is a key of the input user_ratings,
\* whether or not the rating of that item clears min_rating.
C13_RecommendSkipsRatedItems ==
    Answered("recommend") =>
        \A k \in 1 .. Len(api_response.body.items) :
            api_response.body.items[k].movie_id
                \notin DOMAIN api_request.user_ratings

\* an answered request whose profile holds an item rated below min_rating
C13_Witness ==
    /\ Answered("recommend")
    /\ Len(api_response.body.items) >= 1
    /\ \E i \in DOMAIN api_request.user_ratings :
          ~FLeq(api_request.min_rating, api_request.user_ratings[i])

\* the artifacts a set engine reference answers from
Artifacts(rec) == <<rec[1].movies, rec[1].similarity, rec[1].similarity_method>>

\* C14: over any sequence of similar queries and cache clears on a Ready
\* engine, a step never changes the artifacts the engine holds, and every
\* answered similar query returns the list computed from those artifacts
\* for its (item_id, n, metric), be it a cache hit, a miss, a query after a
\* clear or one after its entry was evicted: the same key always gets the
\* same ordered result.
C14_SameKeySameResult ==
    [][/\ recommender # <<>> =>
              /\ recommender' # <<>>
              /\ Artifacts(recommender') = Artifacts(recommender)
       /\ Answered("similar")' =>
              api_response'.body.items =
                  ComputeSimilar(recommender'[1], api_request'.movie_id,
                                 api_request'.n)]_vars

\* an answered similar query on an engine whose cache is full and has
\* already evicted a key queried since the last clear
C14_Witness ==
    /\ Answered("similar")
    /\ recommender # <<>>
    /\ Len(recommender[1].cache) = CacheSize
    /\ Len(recency) > CacheSize
    /\ Len(api_response.body.items) = 2

CacheKeys(engine) == [k \in 1 .. Len(engine.cache) |-> engine.cache[k].key]

\* the last k entries of q
LastOf(q, k) == SubSeq(q, Len(q) - Min(k, Len(q)) + 1, Len(q))

\* C15: after any sequence of similar queries the engine's cache holds at
\* most its capacity (the cache_size the API constructs it with) entries,
\* and they are the most recently used keys in order of use: an insertion
\* that would exceed the capacity removes the least recently used entry.
C15_CacheBoundedLru ==
    recommender # <<>> =>
        /\ recommender[1].cache_size = CacheSize
        /\ Len(recommender[1].cache) <= CacheSize
        /\ CacheKeys(recommender[1]) = LastOf(recency, CacheSize)

\* a full cache after one key more was queried than it holds: the key used
\* longest ago, a query about item 3, is gone, the latest is about item 1
C15_Witness ==
    /\ recommender # <<>>
    /\ Len(recommender[1].cache) = CacheSize
    /\ Len(recency) = CacheSize + 1
    /\ recency[1] \notin {recommender[1].cache[k].key : k \in 1 .. CacheSize}
    /\ recency[Len(recency)][1] = 1
    /\ recency[1][1] = 3

\* the engine a complete construction from the directory dir gives,
\* whatever its cache holds by now
LoadedFrom(engine, dir) ==
    \E r \in {ContentBasedRecommender(dir, DefaultMethod, CacheSize)} :
        /\ r.raised = "none"
        /\ [engine EXCEPT !.cache = <<>>] = r.engine

LoadFailed == api_load \notin {"not_attempted", "ok"}

\* C16: the shared engine reference is never set to a partially loaded
\* engine: whenever it is set, the engine is the complete load of one
\* build; when the construction fails in a request the reference stays
\* unset and the handler gets the failure (it answers with an error, the
\* health check with loaded = false); and a request is answered from the
\* engine only when the reference is set.
C16_ReferenceNeverPartial ==
    /\ recommender # <<>> =>
          \E dir \in builds : LoadedFrom(recommender[1], dir)
    /\ LoadFailed =>
          /\ recommender = <<>>
          /\ ~api_engine_called
          /\ \/ api_response.status >= 500
             \/ api_op = "health" /\ ~api_response.body.loaded
    /\ api_engine_called => recommender # <<>>

\* a request in which the construction failed on a directory that holds
\* files, and the reference stayed unset
C16_Witness ==
    /\ LoadFailed
    /\ model_dir.files # {}
    /\ api_op = "similar"
    /\ api_response.status = 500
    /\ recommender = <<>>

\* C17 (as stated): from a caller's view there are exactly two operating
\* states, fully serving or not serving at all: a failure to load the
\* artifacts is reported as a failure by every operation, and the service
\* never answers successfully in a third, degraded mode.
C17_LoadFailureFailsEveryOperation ==
    /\ LoadFailed => api_response.status >= 400
    /\ api_response.status = 200 => api_response.body.status # "degraded"

\* the files of the bundle are all there, but the feature table and the
\* similarity matrix of the default method differ in size
Mismatched(dir) ==
    /\ RequiredFiles(DefaultMethod) \subseteq dir.files
    /\ NumRows(dir.movies_features) # Shape0(dir.matrices[DefaultMethod])

Requested == api_op \in {"health", "recommend", "similar", "details", "clear"}

\* C18: loading a bundle whose feature table has a row count that differs
\* from the dimension of the similarity matrix raises an artifact-corruption
\* error and leaves the engine Unloaded, or as it was loaded before from
\* another bundle: the reference is never set to an engine of the
\* mismatched bundle, and no set engine has a table and a matrix of
\* different sizes.
C18_MismatchedBundleNeverReady ==
    /\ recommender # <<>> =>
          NumRows(recommender[1].movies) = Shape0(recommender[1].similarity)
    /\ (Requested /\ Mismatched(model_dir)) =>
          /\ api_load \in {"not_attempted", "ArtifactCorruption"}
          /\ api_load = "ArtifactCorruption" => recommender = <<>>
          /\ recommender # <<>> =>
                recommender[1].movies # model_dir.movies_features

\* a recommend request that met the mismatched bundle with no engine loaded
C18_Witness ==
    /\ api_op = "recommend"
    /\ Mismatched(model_dir)
    /\ api_load = "ArtifactCorruption"
    /\ recommender = <<>>
    /\ api_response.status = 500

NothingLiked ==
    Liked(api_request.user_ratings, api_request.min_rating) = {}

\* C19: a recommend request with an empty user_ratings map, or in which no
\* rated item has rating >= min_rating, fails and returns no result list,
\* with an invalid-input error whenever an engine is there to answer (422
\* from the request validation, 400 from the engine's refusal); an empty
\* map is rejected before the engine is built or invoked.
C19_NothingLikedIsInvalidInput ==
    (api_op = "recommend" /\ NothingLiked) =>
        /\ api_response.status \in {400, 422, 500}
        /\ api_response.body.items = <<>>
        /\ ~LoadFailed => api_response.status \in {400, 422}
        /\ DOMAIN api_request.user_ratings = {} =>
              /\ api_response.status = 422
              /\ api_load = "not_attempted"
              /\ ~api_engine_called

\* a profile with ratings, none of them reaching min_rating, refused by the
\* loaded engine
C19_Witness ==
    /\ api_op = "recommend"
    /\ DOMAIN api_request.user_ratings # {}
    /\ NothingLiked
    /\ api_engine_called
    /\ api_response.status = 400

(***************************************************************************)
(* Properties of the versioned artifact directories and of run()           *)
(***************************************************************************)
\* C21: an artifact version is immutable once written: no step of any later
\* run of the training pipeline, with the same or another version id,
\* changes the directory of a version that already holds files.
C21_ExistingVersionNeverOverwritten ==
    [][\A v \in Versions :
          artifacts_dir[v].files # {} => artifacts_dir'[v] = artifacts_dir[v]]_vars

\* C24: run() calls load_data, engineer_features, compute_similarities and
\* save_artifacts in that order, each at most once; no step is called after
\* a step that raised (save_artifacts least of all), the run has failed
\* exactly when a step raised, and what that step raised is what run() lets
\* escape to its caller.
C24_RunStepsInOrderStopAtRaise ==
    /\ Len(run_trace) <= Len(RunSteps)
    /\ \A i \in 1 .. Len(run_trace) : run_trace[i].step = RunSteps[i]
    /\ \A i \in 1 .. Len(run_trace) - 1 : run_trace[i].raised = "none"
    /\ run_raised = IF run_trace = <<>> THEN "none"
                    ELSE run_trace[Len(run_trace)].raised
    /\ (pipeline_pc = "failed") <=> (run_raised # "none")
    /\ (pipeline_pc = "saved") <=>
          (Len(run_trace) = Len(RunSteps) /\ run_raised = "none")
    /\ run_raised # "none" =>
          \A i \in 1 .. Len(run_trace) : run_trace[i].step # "save_artifacts"

\* a run whose compute_similarities raised after two steps that returned:
\* it failed with that exception, with nothing saved by it
C24_Witness ==
    /\ pipeline_pc = "failed"
    /\ Len(run_trace) = 3
    /\ run_trace[3].step = "compute_similarities"
    /\ run_raised = "ValueError"
    /\ saved_files = {}

\* C29: in every metadata descriptor save_artifacts writes, the
\* default_similarity_method is one of the listed similarity_methods, and
\* the call wrote the similarity-matrix file of the default metric.
C29_DefaultMethodAmongSaved ==
    Saved =>
        /\ model_dir.metadata.default_similarity_method
              \in model_dir.metadata.similarity_methods
        /\ MatrixFile(model_dir.metadata.default_similarity_method)
              \in saved_files

(***************************************************************************)
(* compute_all_similarities called again on the same SimilarityComputer    *)
(***************************************************************************)
\* C28: the dictionary compute_all_similarities returns holds a matrix for
\* exactly the recognized metrics named in that call's metric list, in any
\* sequence of calls on the same SimilarityComputer: no matrix of an earlier
\* call with another metric list is returned.
C28_ReturnsExactlyRequestedMetrics ==
    SimReturned =>
        DOMAIN sim_returned = {m \in SeqToSet(RequestedList) : Recognized(m)}

(***************************************************************************)
(* Properties of the metrics (checked under SpecMetrics)                   *)
(***************************************************************************)
\* the status the client of a logged request got: the response's, or the
\* one of the general exception handler after the middleware raised again
ClientStatus(entry) ==
    IF entry.call = "record_request" THEN entry.status_code
    ELSE general_exception_handler(entry.error_type)

\* the tracker calls completed when GET /metrics took its snapshot: all but
\* the record of that request itself
SnapshotLog == SubSeq(mx_log, 1, Len(mx_log) - 1)

FailedIn(log) ==
    {i \in 1 .. Len(log) :
        400 <= ClientStatus(log[i]) /\ ClientStatus(log[i]) <= 599}

SuccessfulIn(log) ==
    {i \in 1 .. Len(log) :
        200 <= ClientStatus(log[i]) /\ ClientStatus(log[i]) <= 399}

ByDispatch == mx_op \in {"dispatch", "metrics"}

\* C25: for every request passing through dispatch exactly one metrics
\* record is made: record_request, with an X-Correlation-ID response
\* header, if the downstream handler returns a response, record_error if it
\* raises, never both and never neither; what was raised is raised again.
C25_ExactlyOneRecordPerRequest ==
    ByDispatch =>
        /\ Len(mx_dispatch.calls) = 1
        /\ mx_dispatch.outcome.kind = "response" =>
              /\ mx_dispatch.calls = <<"record_request">>
              /\ "X-Correlation-ID" \in mx_dispatch.response.headers
              /\ mx_dispatch.raised = "none"
        /\ mx_dispatch.outcome.kind = "raise" =>
              /\ mx_dispatch.calls = <<"record_error">>
              /\ mx_dispatch.raised = mx_dispatch.outcome.error_type

\* C25, amended: at most one metrics record is made per request:
\* record_request, with the X-Correlation-ID header on the response
\* returned, if the downstream handler returns a response; record_error if
\* it raises an exception derived from Exception; none if what is raised is
\* not derived from Exception (a cancelled request).  Whatever was raised is
\* raised again unchanged, and no response is returned then.
C25_OneRecordUnlessNotAnException ==
    ByDispatch =>
        /\ Len(mx_dispatch.calls) <= 1
        /\ mx_dispatch.outcome.kind = "response" =>
              /\ mx_dispatch.calls = <<"record_request">>
              /\ mx_dispatch.response.status_code =
                    mx_dispatch.outcome.status_code
              /\ "X-Correlation-ID" \in mx_dispatch.response.headers
              /\ mx_dispatch.raised = "none"
        /\ mx_dispatch.outcome.kind = "raise" =>
              /\ mx_dispatch.calls =
                    IF mx_dispatch.outcome.error_type \in ExceptionTypes
                    THEN <<"record_error">> ELSE <<>>
              /\ mx_dispatch.raised = mx_dispatch.outcome.error_type
              /\ mx_dispatch.response.status_code = 0

\* a request whose handler raised: one record_error, the exception raised
\* again, and the error counted by its type
C25_Witness ==
    /\ mx_op = "dispatch"
    /\ mx_dispatch.outcome = Raises("RuntimeError")
    /\ mx_dispatch.calls = <<"record_error">>
    /\ mx_dispatch.raised = "RuntimeError"
    /\ DictGet(metrics_data.errors_by_type, "RuntimeError") = 2

RECURSIVE SumOver(_, _)
\* sum(d.values()) over the keys given
SumOver(d, keys) ==
    IF keys = {} THEN 0
    ELSE LET k == CHOOSE x \in keys : TRUE
         IN  d[k] + SumOver(d, keys \ {k})

\* C26: after any sequence of record_request and record_error calls since
\* construction or the last reset, total_requests is the sum of the
\* status_codes counts and the sum of the requests_by_endpoint counts,
\* successful_requests <= total_requests (success_rate within 0..100), and
\* successful_requests + failed_requests = total_requests.
C26_CountersAddUp ==
    /\ metrics_data.total_requests =
          SumOver(metrics_data.status_codes, DOMAIN metrics_data.status_codes)
    /\ metrics_data.total_requests =
          SumOver(metrics_data.requests_by_endpoint,
                  DOMAIN metrics_data.requests_by_endpoint)
    /\ metrics_data.successful_requests <= metrics_data.total_requests
    /\ get_metrics(metrics_data).success_rate_x100 \in 0 .. 10000
    /\ metrics_data.successful_requests + metrics_data.failed_requests
          = metrics_data.total_requests

(***************************************************************************)
(* Properties of the MetricsTracker under threads (SpecThreads)            *)
(***************************************************************************)
RECURSIVE Replay(_)
\* the data a tracker holds after the record calls of the log, made one
\* after another on a fresh MetricsData
Replay(log) ==
    IF log = <<>> THEN NewMetricsData
    ELSE LET before == Replay(SubSeq(log, 1, Len(log) - 1))
             c == log[Len(log)]
         IN  IF c.call = "record_request"
             THEN record_request(before, c.method, c.path, c.status_code,
                                 c.duration_ms)
             ELSE record_error(before, c.method, c.path, c.error_type)

\* C22: MetricsTracker is thread-safe.  Under any interleaving of
\* concurrent record_request, record_error, get_metrics and reset calls no
\* counter update is lost: whenever no thread is inside a method, the data
\* are those of the record calls completed since the last completed reset,
\* each counted once; and the snapshot a get_metrics call returns reflects,
\* in all its counters, exactly the calls completed when it took the lock.
C22_NoLostUpdateConsistentSnapshot ==
    /\ lock = "free" => metrics_data = Replay(mx_log)
    /\ \A t \in Threads :
          threads[t].returned =>
              get_metrics(threads[t].snap) = get_metrics(Replay(threads[t].seen))

\* a thread has returned from get_metrics with a snapshot of one request,
\* equal in its status codes to the calls it saw, and two record calls are
\* complete by now
C22_Witness ==
    /\ lock = "free"
    /\ Len(mx_log) = 2
    /\ \E t \in Threads :
          /\ threads[t].returned
          /\ threads[t].pc = "idle"
          /\ threads[t].snap.total_requests = 1
          /\ threads[t].snap.status_codes = Replay(threads[t].seen).status_codes
    /\ metrics_data.total_requests + metrics_data.failed_requests >= 2

VersionFiles(version) ==
    {k[Len(k)] : k \in {x \in s3_objects : x[1] = version}}

\* the last call returned the local directory
DownloadReturned == dl_call.raised = "none"

\* a call with required files either returns, with every required file
\* among the version's objects and in the local directory, or raises; and
\* raises FileNotFoundError when S3 answered and a required file is missing
RequiredFilesEnforced ==
    /\ DownloadReturned =>
          /\ dl_call.required_files \subseteq VersionFiles(dl_call.version)
          /\ dl_call.required_files \subseteq local_model_dir
    /\ (dl_call.reachable
        /\ ~(dl_call.required_files \subseteq VersionFiles(dl_call.version))) =>
          dl_call.raised = "FileNotFoundError"

\* C30: download_model_version called with required_files returns the local
\* directory only if every required file name is among the objects of that
\* version, and raises FileNotFoundError if one is missing;
\* download_models_from_s3 therefore never returns for a version lacking
\* the cosine matrix, the feature table or the metadata file.
C30_NeverSuccessWithoutRequiredFiles ==
    /\ (dl_op = "download_model_version" /\ dl_call.required_files # {}) =>
          RequiredFilesEnforced
    /\ dl_op = "download_models_from_s3" =>
          /\ dl_call.required_files = RequiredModelFiles
          /\ RequiredFilesEnforced

\* C30, amended: the same of download_model_version; and
\* download_models_from_s3 never returns for a version lacking one of the
\* three files when boto3 is installed.  Without boto3 it returns the local
\* directory untouched, whatever the bucket holds.
C30_RequiredFilesCheckedWithBoto3 ==
    /\ (dl_op = "download_model_version" /\ dl_call.required_files # {}) =>
          RequiredFilesEnforced
    /\ (dl_op = "download_models_from_s3" /\ boto3_available) =>
          /\ dl_call.required_files = RequiredModelFiles
          /\ RequiredFilesEnforced
    /\ (dl_op = "download_models_from_s3" /\ ~boto3_available) =>
          /\ DownloadReturned
          /\ local_model_dir = {}

\* the helper refusing a version that has the cosine matrix and the
\* metadata but no feature table; the two files fetched stay in the local
\* directory
C30_Witness ==
    /\ dl_op = "download_models_from_s3"
    /\ boto3_available
    /\ dl_call.raised = "FileNotFoundError"
    /\ VersionFiles(dl_call.version) =
          {"cosine_similarity_matrix.pkl", "metadata.json"}
    /\ local_model_dir = VersionFiles(dl_call.version)

=============================================================================
